---- MODULE Spec2Model ----
(***************************************************************************)
(* hiho terminal UI: the bubbletea event loop (Program.Run), its input     *)
(* decoder (parseInput, parseCSI, parseSGRMouse) and the application model *)
(* it drives.                                                               *)
(***************************************************************************)
EXTENDS Integers, Sequences, FiniteSets, TLC

(***************************************************************************)
(* Bytes and strings.  A byte is a number 0..255; a key code is a string.  *)
(***************************************************************************)
ESC == 27

HexDigits == <<"0", "1", "2", "3", "4", "5", "6", "7",
               "8", "9", "a", "b", "c", "d", "e", "f">>

PrintableChars ==
   <<
      " ", "!", "\"", "#", "$", "%", "&", "'", "(", ")", "*", "+",
      ",", "-", ".", "/", "0", "1", "2", "3", "4", "5", "6", "7",
      "8", "9", ":", ";", "<", "=", ">", "?", "@", "A", "B", "C",
      "D", "E", "F", "G", "H", "I", "J", "K", "L", "M", "N", "O",
      "P", "Q", "R", "S", "T", "U", "V", "W", "X", "Y", "Z", "[",
      "\\", "]", "^", "_", "<60>", "a", "b", "c", "d", "e", "f", "g",
      "h", "i", "j", "k", "l", "m", "n", "o", "p", "q", "r", "s",
      "t", "u", "v", "w", "x", "y", "z", "{", "|", "}", "~"
   >>

\* string(b) for a byte b: the character itself in the printable range
\* 0x20..0x7e (the backquote, which a TLA+ string cannot hold, is written
\* <60>); any other byte is written <hh>, an injective rendering of the
\* one-rune string Go builds.
Chr(b) ==
    IF b >= 32 /\ b <= 126
    THEN PrintableChars[b - 31]
    ELSE "<" \o HexDigits[(b \div 16) + 1] \o HexDigits[(b % 16) + 1] \o ">"

\* the byte of an ASCII character, by its position in the printable table
Ord(c) == CHOOSE b \in 32..126 : PrintableChars[b - 31] = c

(***************************************************************************)
(* Messages (tea.Msg).                                                     *)
(***************************************************************************)
KeyMsg(t) == [type |-> "KeyMsg", Type |-> t]

WindowSizeMsg(w, h) == [type |-> "WindowSizeMsg", Width |-> w, Height |-> h]

\* X and Y are Go ints, held as the limbs defined with parseSGRMouse
MouseMsg(x, y, t) == [type |-> "MouseMsg", X |-> x, Y |-> y, Type |-> t]

quitMsg == [type |-> "quitMsg"]

\* MouseEventType
MouseLeft == 0
MouseRight == 1
MouseMiddle == 2
MouseRelease == 3
MouseMotion == 4
MouseWheelUp == 5
MouseWheelDown == 6

\* the nil Msg / nil Cmd
Nil == [type |-> "nil"]

(***************************************************************************)
(* parseCSI: ESC [ ...  Returns <<msg, consumed>>; consumed = 0 with Nil   *)
(* when the buffer is no CSI sequence.                                     *)
(***************************************************************************)
CSIFinal(c) ==
    CASE c = Ord("A") -> "up"
      [] c = Ord("B") -> "down"
      [] c = Ord("C") -> "right"
      [] c = Ord("D") -> "left"
      [] c = Ord("H") -> "home"
      [] c = Ord("F") -> "end"
      [] c = Ord("Z") -> "shift+tab"
      [] OTHER -> ""

\* a variant with the alt and ctrl digits exchanged
ModPrefix_altCtrlSwapped(mod) ==
    CASE mod = Ord("2") -> "shift+"
      [] mod = Ord("3") -> "ctrl+"
      [] mod = Ord("4") -> "shift+alt+"
      [] mod = Ord("5") -> "alt+"
      [] mod = Ord("6") -> "shift+ctrl+"
      [] mod = Ord("7") -> "alt+ctrl+"
      [] mod = Ord("8") -> "shift+alt+ctrl+"
      [] OTHER -> ""

ModPrefix(mod) ==
    CASE mod = Ord("2") -> "shift+"
      [] mod = Ord("3") -> "alt+"
      [] mod = Ord("4") -> "shift+alt+"
      [] mod = Ord("5") -> "ctrl+"
      [] mod = Ord("6") -> "shift+ctrl+"
      [] mod = Ord("7") -> "alt+ctrl+"
      [] mod = Ord("8") -> "shift+alt+ctrl+"
      [] OTHER -> ""

ModFinal(c) ==
    CASE c = Ord("A") -> "up"
      [] c = Ord("B") -> "down"
      [] c = Ord("C") -> "right"
      [] c = Ord("D") -> "left"
      [] c = Ord("H") -> "home"
      [] c = Ord("F") -> "end"
      [] OTHER -> ""

TildeKey(c) ==
    CASE c = Ord("2") -> "insert"
      [] c = Ord("3") -> "delete"
      [] c = Ord("5") -> "pgup"
      [] c = Ord("6") -> "pgdown"
      [] OTHER -> ""

\* a variant that takes an unrecognized sequence to have the length of a
\* modified key
UnknownCSI_takesSix(buf) == <<KeyMsg("unknown"), 6>>

\* the final return: the sequence is not recognized
UnknownCSI(buf) == <<KeyMsg("unknown"), 3>>

parseCSI(buf) ==
    IF Len(buf) < 3 \/ buf[1] # ESC \/ buf[2] # Ord("[")
    THEN <<Nil, 0>>
    ELSE IF CSIFinal(buf[3]) # ""
    THEN <<KeyMsg(CSIFinal(buf[3])), 3>>
    ELSE IF /\ Len(buf) >= 6 /\ buf[3] = Ord("1") /\ buf[4] = Ord(";")
            /\ ModFinal(buf[6]) # ""
    THEN <<KeyMsg(ModPrefix(buf[5]) \o ModFinal(buf[6])), 6>>
    ELSE IF Len(buf) >= 4 /\ buf[4] = Ord("~") /\ TildeKey(buf[3]) # ""
    THEN <<KeyMsg(TildeKey(buf[3])), 4>>
    ELSE UnknownCSI(buf)

(***************************************************************************)
(* parseSGRMouse: ESC [ < Cb ; Cx ; Cy (M|m).                              *)
(***************************************************************************)
IsDigit(b) == b >= Ord("0") /\ b <= Ord("9")

\* the scan position after the digit run starting at i (1-based)
RECURSIVE DigitsEnd(_, _)
DigitsEnd(buf, i) ==
    IF i <= Len(buf) /\ IsDigit(buf[i]) THEN DigitsEnd(buf, i + 1) ELSE i

\* Go's int is 64 bits wide on the platforms the program is built for, and
\* its arithmetic wraps.  An int is held as its two's complement bit pattern
\* in four 16-bit limbs, least significant first.
Limb == 2 ^ 16

Int64Zero == <<0, 0, 0, 0>>

\* w*10 + d for a digit d, wrapped to 64 bits
Int64MulAdd10Limbs(w, d) ==
    LET c1 == w[1] * 10 + d
        c2 == w[2] * 10 + c1 \div Limb
        c3 == w[3] * 10 + c2 \div Limb
        c4 == w[4] * 10 + c3 \div Limb
    IN <<c1 % Limb, c2 % Limb, c3 % Limb, c4 % Limb>>

\* the same, the value of v being taken once (w \in {v})
Int64MulAdd10(v, d) == CHOOSE r \in {Int64MulAdd10Limbs(w, d) : w \in {v}} : TRUE

\* v - 1, wrapped to 64 bits
Int64Dec(v) ==
    IF v[1] > 0 THEN <<v[1] - 1, v[2], v[3], v[4]>>
    ELSE IF v[2] > 0 THEN <<Limb - 1, v[2] - 1, v[3], v[4]>>
    ELSE IF v[3] > 0 THEN <<Limb - 1, Limb - 1, v[3] - 1, v[4]>>
    ELSE IF v[4] > 0 THEN <<Limb - 1, Limb - 1, Limb - 1, v[4] - 1>>
    ELSE <<Limb - 1, Limb - 1, Limb - 1, Limb - 1>>

\* the int of a number n in -2^31 .. 2^31-1
GoInt(n) ==
    IF n >= 0 THEN <<n % Limb, n \div Limb, 0, 0>>
    ELSE <<n % Limb, (n \div Limb) % Limb, Limb - 1, Limb - 1>>

\* the value accumulated over buf[i..j-1] by v = v*10 + int(digit), from
\* v = 0
RECURSIVE DigitsValue(_, _, _)
DigitsValue(buf, i, j) ==
    IF j <= i THEN Int64Zero
    ELSE Int64MulAdd10(DigitsValue(buf, i, j - 1), buf[j - 1] - Ord("0"))

\* a variant that numbers the buttons in the order of the MouseEventType
\* constants (left, right, middle)
MouseEventOf_constOrder(cb, endChar) ==
    IF endChar = Ord("m") THEN MouseRelease
    ELSE LET button == CASE cb % 4 = 0 -> MouseLeft
                         [] cb % 4 = 1 -> MouseRight
                         [] cb % 4 = 2 -> MouseMiddle
                         [] OTHER -> MouseRelease
             motion == IF (cb \div 32) % 2 # 0 THEN MouseMotion ELSE button
         IN IF (cb \div 64) % 2 # 0
            THEN (IF cb % 2 = 0 THEN MouseWheelUp ELSE MouseWheelDown)
            ELSE motion

\* the event type, from the low 16 bits of cb and the final byte: the
\* switch on cb&3, then the overriding tests of cb&32 and cb&64
MouseEventOf(cb, endChar) ==
    IF endChar = Ord("m") THEN MouseRelease
    ELSE LET button == CASE cb % 4 = 0 -> MouseLeft
                         [] cb % 4 = 1 -> MouseMiddle
                         [] cb % 4 = 2 -> MouseRight
                         [] OTHER -> MouseRelease
             motion == IF (cb \div 32) % 2 # 0 THEN MouseMotion ELSE button
         IN IF (cb \div 64) % 2 # 0
            THEN (IF cb % 2 = 0 THEN MouseWheelUp ELSE MouseWheelDown)
            ELSE motion

\* The three digit loops leave i at i1, i2 and i3 (1-based).  Each position
\* is taken once it is computed (i \in {DigitsEnd(...)}) and handed on.

\* from the end of the Y digits: the final byte and the event
parseSGRMouseEnd(buf, i1, i2, i3) ==
    IF i3 > Len(buf) THEN <<Nil, 0>>
    ELSE IF buf[i3] # Ord("M") /\ buf[i3] # Ord("m") THEN <<Nil, 0>>
    ELSE <<MouseMsg(Int64Dec(DigitsValue(buf, i1 + 1, i2)),
                    Int64Dec(DigitsValue(buf, i2 + 1, i3)),
                    MouseEventOf(DigitsValue(buf, 4, i1)[1], buf[i3])),
           i3>>

\* from the end of the X digits: the separator and the Y coordinate
parseSGRMouseY(buf, i1, i2) ==
    IF i2 > Len(buf) \/ buf[i2] # Ord(";") THEN <<Nil, 0>>
    ELSE CHOOSE r \in {parseSGRMouseEnd(buf, i1, i2, i3) :
                          i3 \in {DigitsEnd(buf, i2 + 1)}} : TRUE

\* from the end of the button code: the separator and the X coordinate
parseSGRMouseX(buf, i1) ==
    IF i1 > Len(buf) \/ buf[i1] # Ord(";") THEN <<Nil, 0>>
    ELSE CHOOSE r \in {parseSGRMouseY(buf, i1, i2) :
                          i2 \in {DigitsEnd(buf, i1 + 1)}} : TRUE

parseSGRMouse(buf) ==
    IF Len(buf) < 4 \/ buf[1] # ESC \/ buf[2] # Ord("[") \/ buf[3] # Ord("<")
    THEN <<Nil, 0>>
    ELSE CHOOSE r \in {parseSGRMouseX(buf, i1) :
                          i1 \in {DigitsEnd(buf, 4)}} : TRUE

(***************************************************************************)
(* parseInput: the byte scanner.                                           *)
(***************************************************************************)
\* the switch on a non-ESC byte: the key it names, "" when it names none
ControlKey(b) ==
    CASE b = 9 -> "tab"
      [] b = 10 \/ b = 13 -> "enter"
      [] b = 1 -> "ctrl+a"
      [] b = 2 -> "ctrl+b"
      [] b = 3 -> "ctrl+c"
      [] b = 4 -> "ctrl+d"
      [] b = 5 -> "ctrl+e"
      [] b = 6 -> "ctrl+f"
      [] b = 11 -> "ctrl+k"
      [] b = 12 -> "ctrl+l"
      [] b = 14 -> "ctrl+n"
      [] b = 15 -> "ctrl+o"
      [] b = 16 -> "ctrl+p"
      [] b = 21 -> "ctrl+u"
      [] b = 23 -> "ctrl+w"
      [] b = 127 -> "backspace"
      [] OTHER -> ""

\* a variant with the half-open range [0x20, 0x7e)
IsPrintable_halfOpen(b) == b >= 32 /\ b < 126

\* the default case's test for a regular character
IsPrintable(b) == b >= 32 /\ b < 127

\* a variant that leaves the byte after ESC to the next iteration
AltKey_consumesOne(buf, i) == <<<<KeyMsg("alt+" \o Chr(buf[i + 1]))>>, 1>>

\* ESC followed by another character: key := string(buf[i+1]); i += 2
AltKey(buf, i) == <<<<KeyMsg("alt+" \o Chr(buf[i + 1]))>>, 2>>

\* one iteration of the scan loop at position i (1-based): <<msgs, advance>>
ScanStep(buf, i) ==
    LET rest == SubSeq(buf, i, Len(buf))
        n == Len(buf)
    IN IF buf[i] = ESC
       THEN IF /\ i + 2 <= n /\ buf[i + 1] = Ord("[") /\ buf[i + 2] = Ord("<")
               /\ parseSGRMouse(rest)[2] > 0
            THEN <<<<parseSGRMouse(rest)[1]>>, parseSGRMouse(rest)[2]>>
            ELSE IF /\ i + 1 <= n /\ buf[i + 1] = Ord("[")
                    /\ parseCSI(rest)[2] > 0
            THEN <<<<parseCSI(rest)[1]>>, parseCSI(rest)[2]>>
            ELSE IF i + 1 <= n /\ buf[i + 1] # Ord("[") /\ buf[i + 1] # Ord("O")
            THEN AltKey(buf, i)
            ELSE <<<<KeyMsg("esc")>>, 1>>
       ELSE IF ControlKey(buf[i]) # ""
            THEN <<<<KeyMsg(ControlKey(buf[i]))>>, 1>>
            ELSE IF IsPrintable(buf[i])
            THEN <<<<KeyMsg(Chr(buf[i]))>>, 1>>
            ELSE <<<<>>, 1>>

RECURSIVE ScanFrom(_, _)
ScanFrom(buf, i) ==
    IF i > Len(buf) THEN <<>>
    ELSE ScanStep(buf, i)[1] \o ScanFrom(buf, i + ScanStep(buf, i)[2])

parseInput(buf) == ScanFrom(buf, 1)

(***************************************************************************)
(* lipgloss: Style.Render, JoinHorizontal, JoinVertical, visibleWidth.  A   *)
(* Go string is the sequence of its bytes.                                 *)
(***************************************************************************)
NL == 10
SP == 32

\* strings.Repeat(s, n) for n >= 0
RECURSIVE Repeat(_, _)
Repeat(s, n) == IF n <= 0 THEN <<>> ELSE s \o Repeat(s, n - 1)

\* strings.Split(s, "\n"): the pieces between the newlines, at least one
RECURSIVE SplitFrom(_, _, _)
SplitFrom(s, i, cur) ==
    IF i > Len(s) THEN <<cur>>
    ELSE IF s[i] = NL THEN <<cur>> \o SplitFrom(s, i + 1, <<>>)
    ELSE SplitFrom(s, i + 1, Append(cur, s[i]))

Split(s) == SplitFrom(s, 1, <<>>)

\* strings.Join(parts, "\n")
RECURSIVE JoinLines(_)
JoinLines(ls) ==
    IF Len(ls) = 0 THEN <<>>
    ELSE IF Len(ls) = 1 THEN ls[1]
    ELSE ls[1] \o <<NL>> \o JoinLines(Tail(ls))

IsCont(b) == b >= 128 /\ b <= 191

\* the number of bytes the range loop takes for the rune at s[i]: the length
\* of a well-formed UTF-8 sequence, 1 for a byte that begins none
RuneLen(s, i) ==
    LET n == Len(s)
        b0 == s[i]
        b1 == IF i + 1 <= n THEN s[i + 1] ELSE 0
        b2 == IF i + 2 <= n THEN s[i + 2] ELSE 0
        b3 == IF i + 3 <= n THEN s[i + 3] ELSE 0
    IN IF b0 >= 194 /\ b0 <= 223 /\ IsCont(b1) THEN 2
       ELSE IF /\ b0 >= 224 /\ b0 <= 239 /\ IsCont(b1) /\ IsCont(b2)
               /\ (b0 = 224 => b1 >= 160)
               /\ (b0 = 237 => b1 <= 159) THEN 3
       ELSE IF /\ b0 >= 240 /\ b0 <= 244 /\ IsCont(b1) /\ IsCont(b2)
               /\ IsCont(b3)
               /\ (b0 = 240 => b1 >= 144)
               /\ (b0 = 244 => b1 <= 143) THEN 4
       ELSE 1

\* the loop of visibleWidth from byte i on, with its inEscape and width
RECURSIVE visibleWidthFrom(_, _, _, _)
visibleWidthFrom(s, i, inEscape, width) ==
    IF i > Len(s) THEN width
    ELSE IF s[i] = ESC THEN visibleWidthFrom(s, i + 1, TRUE, width)
    ELSE IF inEscape
    THEN visibleWidthFrom(s, i + RuneLen(s, i), s[i] # Ord("m"), width)
    ELSE visibleWidthFrom(s, i + RuneLen(s, i), FALSE, width + 1)

visibleWidth(s) == visibleWidthFrom(s, 1, FALSE, 0)

\* Style: the zero value of NewStyle(); a Color is a string
NewStyle ==
    [bold |-> FALSE, marginTop |-> 0, fg |-> <<>>, bg |-> <<>>, paddingH |-> 0,
     paddingV |-> 0, border |-> FALSE, width |-> 0, height |-> 0,
     reverse |-> FALSE]

\* the value of a call that panics (strings.Repeat with a negative count)
Panic == [type |-> "panic"]

RECURSIVE MaxLineLen(_)
MaxLineLen(ls) ==
    IF Len(ls) = 0 THEN 0
    ELSE IF Len(ls[1]) > MaxLineLen(Tail(ls)) THEN Len(ls[1])
    ELSE MaxLineLen(Tail(ls))

\* contentWidth: the fixed width, or the longest padded line when none is set
ContentWidth(s, lines) == IF s.width = 0 THEN MaxLineLen(lines) ELSE s.width

\* a variant that never cuts a line
FitLine_neverCuts(s, cw, line) ==
    IF Len(line) < cw THEN line \o Repeat(<<SP>>, cw - Len(line)) ELSE line

\* a line padded to contentWidth, or cut to it when a width is set
FitLine(s, cw, line) ==
    IF Len(line) < cw THEN line \o Repeat(<<SP>>, cw - Len(line))
    ELSE IF Len(line) > cw /\ s.width > 0 THEN SubSeq(line, 1, cw)
    ELSE line

\* the lines padded with blank lines or cut to the fixed height, when set
FitHeight(s, cw, lines) ==
    IF s.height > 0
    THEN IF Len(lines) < s.height
         THEN lines \o [k \in 1..(s.height - Len(lines)) |-> Repeat(<<SP>>, cw)]
         ELSE SubSeq(lines, 1, s.height)
    ELSE lines

\* the SGR parameters of the style, in the order they are appended
Codes(s) ==
    (IF s.bold THEN <<<<Ord("1")>>>> ELSE <<>>)
    \o (IF s.reverse THEN <<<<Ord("7")>>>> ELSE <<>>)
    \o (IF s.fg # <<>>
        THEN <<<<Ord("3"), Ord("8"), Ord(";"), Ord("5"), Ord(";")>> \o s.fg>>
        ELSE <<>>)
    \o (IF s.bg # <<>>
        THEN <<<<Ord("4"), Ord("8"), Ord(";"), Ord("5"), Ord(";")>> \o s.bg>>
        ELSE <<>>)

\* strings.Join(codes, ";")
RECURSIVE JoinCodes(_)
JoinCodes(cs) ==
    IF Len(cs) = 0 THEN <<>>
    ELSE IF Len(cs) = 1 THEN cs[1]
    ELSE cs[1] \o <<Ord(";")>> \o JoinCodes(Tail(cs))

AnsiStart(s) ==
    IF Len(Codes(s)) > 0
    THEN <<ESC, Ord("[")>> \o JoinCodes(Codes(s)) \o <<Ord("m")>>
    ELSE <<>>

AnsiEnd(s) ==
    IF Len(Codes(s)) > 0 THEN <<ESC, Ord("["), Ord("0"), Ord("m")>> ELSE <<>>

\* the box-drawing runes, as their UTF-8 bytes
borderChars ==
    [topLeft |-> <<226, 148, 140>>, topRight |-> <<226, 148, 144>>,
     bottomLeft |-> <<226, 148, 148>>, bottomRight |-> <<226, 148, 152>>,
     horizontal |-> <<226, 148, 128>>, vertical |-> <<226, 148, 130>>]

\* the content lines between their escape codes, one per row
RECURSIVE StyledLines(_, _)
StyledLines(s, lines) ==
    IF Len(lines) = 0 THEN <<>>
    ELSE <<AnsiStart(s) \o lines[1] \o AnsiEnd(s)>>
         \o StyledLines(s, Tail(lines))

RECURSIVE BorderedLines(_, _)
BorderedLines(s, lines) ==
    IF Len(lines) = 0 THEN <<>>
    ELSE borderChars.vertical \o AnsiStart(s) \o lines[1] \o AnsiEnd(s) \o borderChars.vertical
         \o <<NL>> \o BorderedLines(s, Tail(lines))

\* Style.Render(str)
StyleRender(s, str) ==
    LET margin == Repeat(<<NL>>, s.marginTop)
        padding == Repeat(<<SP>>, s.paddingH)
        split == Split(str)
        padded == [k \in 1..Len(split) |-> padding \o split[k] \o padding]
        cw == ContentWidth(s, padded)
        fitted == [k \in 1..Len(padded) |-> FitLine(s, cw, padded[k])]
        lines == FitHeight(s, cw, fitted)
    IN IF \/ s.paddingH < 0
          \/ (cw < 0 /\ (s.border \/ (s.height > Len(split))))
       THEN Panic
       ELSE IF s.border
       THEN margin \o borderChars.topLeft \o Repeat(borderChars.horizontal, cw) \o borderChars.topRight \o <<NL>>
            \o BorderedLines(s, lines)
            \o borderChars.bottomLeft \o Repeat(borderChars.horizontal, cw) \o borderChars.bottomRight
       ELSE margin \o JoinLines(StyledLines(s, lines))

\* JoinVertical(_, parts...)
JoinVertical(parts) == JoinLines(parts)

\* partWidths[i]: the visible width of the widest line of a part
RECURSIVE MaxVisibleWidth(_)
MaxVisibleWidth(ls) ==
    IF Len(ls) = 0 THEN 0
    ELSE IF visibleWidth(ls[1]) > MaxVisibleWidth(Tail(ls))
    THEN visibleWidth(ls[1])
    ELSE MaxVisibleWidth(Tail(ls))

RECURSIVE MaxLen2(_)
MaxLen2(ps) ==
    IF Len(ps) = 0 THEN 0
    ELSE IF Len(ps[1]) > MaxLen2(Tail(ps)) THEN Len(ps[1])
    ELSE MaxLen2(Tail(ps))

\* a variant that pads the rows of a part with fewer lines by nothing
JoinCell_noFill(partLines, widths, row, i) ==
    LET lines == partLines[i]
        last == i = Len(partLines)
    IN IF row <= Len(lines)
       THEN lines[row]
            \o (IF ~last /\ visibleWidth(lines[row]) < widths[i]
                THEN Repeat(<<SP>>, widths[i] - visibleWidth(lines[row]))
                ELSE <<>>)
       ELSE <<>>

\* a variant that pads every part but the last to one column more than its
\* width
JoinCell_gap(partLines, widths, row, i) ==
    LET lines == partLines[i]
        last == i = Len(partLines)
    IN IF row <= Len(lines)
       THEN lines[row]
            \o (IF ~last /\ visibleWidth(lines[row]) <= widths[i]
                THEN Repeat(<<SP>>, widths[i] + 1 - visibleWidth(lines[row]))
                ELSE <<>>)
       ELSE IF ~last THEN Repeat(<<SP>>, widths[i] + 1) ELSE <<>>

\* what part i (1-based) contributes to a row (1-based) of the result
JoinCell(partLines, widths, row, i) ==
    LET lines == partLines[i]
        last == i = Len(partLines)
    IN IF row <= Len(lines)
       THEN lines[row]
            \o (IF ~last /\ visibleWidth(lines[row]) < widths[i]
                THEN Repeat(<<SP>>, widths[i] - visibleWidth(lines[row]))
                ELSE <<>>)
       ELSE IF ~last THEN Repeat(<<SP>>, widths[i]) ELSE <<>>

\* the cells of a row from part i on, concatenated
RECURSIVE JoinRowFrom(_, _, _, _)
JoinRowFrom(partLines, widths, row, i) ==
    IF i > Len(partLines) THEN <<>>
    ELSE JoinCell(partLines, widths, row, i)
         \o JoinRowFrom(partLines, widths, row, i + 1)

\* JoinHorizontal(_, parts...)
JoinHorizontal(parts) ==
    IF Len(parts) = 0 THEN <<>>
    ELSE LET partLines == [i \in 1..Len(parts) |-> Split(parts[i])]
             maxLines == MaxLen2(partLines)
             widths == [i \in 1..Len(parts) |-> MaxVisibleWidth(partLines[i])]
         IN JoinLines([row \in 1..maxLines |->
                          JoinRowFrom(partLines, widths, row, 1)])

(***************************************************************************)
(* The application model (ui.Model) driven by the loop: the window size,   *)
(* the active tab, the focus, the input line, the conversation, and the    *)
(* sessions it reaches through the tmux manager.                           *)
(***************************************************************************)
tabConversation == 0
tabTmux == 1

focusSidebar == 0
focusMain == 1
focusInput == 2

\* a Cmd is the Msg it yields when executed; the nil Cmd is Nil
Cmd(msg) == [type |-> "Cmd", yields |-> msg]

Quit == Cmd(quitMsg)

Blink == Nil

\* error values
Err(text) == [type |-> "error", text |-> text]

ErrSessionNotFound == Err("session not found")

DefaultConfig ==
    [Quit |-> "ctrl+c", CycleWindows |-> "ctrl+o", NextSession |-> "alt+right",
     PrevSession |-> "alt+left", ToggleTab |-> "tab", SessionUp |-> "up",
     SessionDown |-> "down", FocusSidebar |-> "ctrl+1", FocusMain |-> "ctrl+2"]

(***************************************************************************)
(* The tmux manager.  Its state is the tmux server's: the names of the     *)
(* sessions, in the order list-sessions prints them, with the clock and    *)
(* the random source that uniqueName reads.                                *)
(***************************************************************************)
Session(name) == [Name |-> name]

\* strconv of a natural number, as fmt's %d prints it
RECURSIVE Itoa(_)
Itoa(n) ==
    IF n < 10 THEN Chr(Ord("0") + n)
    ELSE Itoa(n \div 10) \o Chr(Ord("0") + (n % 10))

\* fmt's %04d of a number below 10000: four digits, padded with zeros
Pad4(n) ==
    Itoa((n \div 1000) % 10) \o Itoa((n \div 100) % 10)
    \o Itoa((n \div 10) % 10) \o Itoa(n % 10)

\* a process id, used by the naming scheme hiho-<pid>-<n>
Pid == 7

\* what time.Now().UnixNano() and rand.Intn(10000) may return
Nanos == {Pid, 1700000000}
Rands == {0, 42}

\* the name of a session is a string; strings.HasPrefix(name, "hiho-") is
\* decided by writing the name as "hiho-" followed by one of the tails that
\* session names have here
NameTails ==
    {Itoa(n) \o "-" \o Pad4(r) : n \in Nanos, r \in Rands}
    \cup {Itoa(Pid) \o "-" \o Itoa(k) : k \in 0..2}

HasPrefixHiho(name) == \E t \in NameTails : name = "hiho-" \o t

\* made and created are history: how many sessions this Manager started,
\* and the commands NewSession was called with.  fails names the calls whose
\* tmux command exits with an error when they are made.
NewManager ==
    [sessions |-> <<>>, nano |-> Pid, rnd |-> 0, made |-> 0,
     created |-> <<>>, fails |-> {}]

uniqueName(mgr) == "hiho-" \o Itoa(mgr.nano) \o "-" \o Pad4(mgr.rnd)

RECURSIVE IndexOf(_, _, _)
\* the first index from i at which name stands in names, 0 when there is none
IndexOf(names, name, i) ==
    IF i > Len(names) THEN 0
    ELSE IF names[i] = name THEN i
    ELSE IndexOf(names, name, i + 1)

Has(mgr, name) == IndexOf(mgr.sessions, name, 1) # 0

\* Manager.NewSession: <<manager, session, err>>; tmux new-session refuses a
\* name that is taken
NewSession(mgr, cmd) ==
    LET name == uniqueName(mgr)
        got == [mgr EXCEPT !.created = Append(@, cmd)]
    IN IF "NewSession" \in mgr.fails \/ Has(mgr, name)
       THEN <<got, Session(""), Err("create session")>>
       ELSE <<[got EXCEPT !.sessions = Append(@, name), !.made = @ + 1],
              Session(name), Nil>>

\* what capture-pane prints for a session
PaneOutput(name) == "$ " \o name

\* Manager.Capture: <<output, err>>
Capture(mgr, name) ==
    IF "Capture" \notin mgr.fails /\ Has(mgr, name)
    THEN <<PaneOutput(name), Nil>>
    ELSE <<"", Err("capture output")>>

RECURSIVE Sessions(_)
Sessions(names) ==
    IF names = <<>> THEN <<>>
    ELSE <<Session(Head(names))>> \o Sessions(Tail(names))

\* Manager.List: <<sessions, err>>
List(mgr) ==
    IF "List" \in mgr.fails THEN <<<<>>, Err("list sessions")>>
    ELSE <<Sessions(mgr.sessions), Nil>>

\* Manager.Switch: <<session, err>>
Switch_anyName(mgr, name) ==
    IF List(mgr)[2] # Nil THEN <<Session(""), List(mgr)[2]>>
    ELSE <<Session(name), Nil>>
Switch(mgr, name) ==
    IF List(mgr)[2] # Nil THEN <<Session(""), List(mgr)[2]>>
    ELSE IF Has(mgr, name) THEN <<Session(name), Nil>>
    ELSE <<Session(""), ErrSessionNotFound>>

\* Manager.selectRelative: <<session, err>>
selectRelative(mgr, current, delta) ==
    LET n == Len(mgr.sessions)
        index == IndexOf(mgr.sessions, current, 1) - 1
    IN IF List(mgr)[2] # Nil THEN <<Session(""), List(mgr)[2]>>
       ELSE IF n = 0 \/ index = -1 THEN <<Session(""), ErrSessionNotFound>>
       ELSE <<Session(mgr.sessions[((index + delta + n) % n) + 1]), Nil>>

Names(ss) == {ss[k] : k \in 1..Len(ss)}

RECURSIVE HihoOnly(_)
HihoOnly(names) ==
    IF names = <<>> THEN <<>>
    ELSE (IF HasPrefixHiho(Head(names)) THEN <<Head(names)>> ELSE <<>>)
         \o HihoOnly(Tail(names))

RECURSIVE NonHiho(_)
NonHiho(names) ==
    IF names = <<>> THEN <<>>
    ELSE (IF HasPrefixHiho(Head(names)) THEN <<>> ELSE <<Head(names)>>)
         \o NonHiho(Tail(names))

\* Manager.Kill: <<manager, err>>; tmux kill-session refuses a name it does
\* not know
Kill(mgr, name) ==
    IF ~Has(mgr, name) THEN <<mgr, Err("kill session")>>
    ELSE <<[mgr EXCEPT !.sessions =
                SelectSeq(@, LAMBDA other : other # name)], Nil>>

\* Manager.ListHiho: the sessions whose name starts with "hiho-"
ListHiho(mgr) ==
    IF "ListHiho" \in mgr.fails THEN <<<<>>, Err("list sessions")>>
    ELSE <<Sessions(HihoOnly(mgr.sessions)), Nil>>

\* Manager.KillAllHiho: <<manager, err>>; kills every session that ListHiho
\* names and no other
KillAllHiho(mgr) ==
    IF "KillAllHiho" \in mgr.fails THEN <<mgr, Err("kill sessions")>>
    ELSE <<[mgr EXCEPT !.sessions = NonHiho(@)], Nil>>

(***************************************************************************)
(* ui.Model                                                                *)
(***************************************************************************)
NewModel ==
    [manager |-> NewManager, width |-> 0, height |-> 0,
     activeTab |-> tabConversation, focus |-> focusInput,
     input |-> [ValueStr |-> "", focused |-> TRUE], messages |-> <<>>,
     currentSession |-> "", sessionLog |-> "", sessions |-> <<>>,
     sessionIndex |-> 0]

ModelInit(mdl) == Blink

appendMessage(mdl, role, content) ==
    [mdl EXCEPT !.messages = Append(@, [Role |-> role, Content |-> content])]

toggleTab(mdl) ==
    [mdl EXCEPT !.activeTab = IF @ = tabConversation THEN tabTmux
                              ELSE tabConversation]

\* refreshSessions keeps the old list when ListHiho fails
refreshSessions(mdl) ==
    LET r == ListHiho(mdl.manager)
    IN IF r[2] = Nil THEN [mdl EXCEPT !.sessions = r[1]] ELSE mdl

\* captureCurrentSession: <<model, err>>
captureCurrentSession_noMessage(mdl) ==
    IF mdl.currentSession = "" THEN <<mdl, ErrSessionNotFound>>
    ELSE LET r == Capture(mdl.manager, mdl.currentSession)
         IN IF r[2] # Nil THEN <<mdl, r[2]>>
            ELSE <<[mdl EXCEPT !.sessionLog = r[1]], Nil>>
captureCurrentSession(mdl) ==
    IF mdl.currentSession = "" THEN <<mdl, ErrSessionNotFound>>
    ELSE LET r == Capture(mdl.manager, mdl.currentSession)
         IN IF r[2] # Nil THEN <<mdl, r[2]>>
            ELSE <<appendMessage([mdl EXCEPT !.sessionLog = r[1]],
                                 mdl.currentSession, r[1]), Nil>>

RECURSIVE FindSession(_, _, _)
\* the loop that looks for the current session: the first index from i
\* (0-based) whose session has that name, or the index it had when none has
FindSession(mdl, i, old) ==
    IF i >= Len(mdl.sessions) THEN old
    ELSE IF mdl.sessions[i + 1].Name = mdl.currentSession THEN i
    ELSE FindSession(mdl, i + 1, old)

\* the index navigateSession moves to from index i
NewIndex_noWrap(mdl, i, delta) ==
    LET newIndex == i + delta
    IN IF newIndex < 0 THEN 0
       ELSE IF newIndex >= Len(mdl.sessions) THEN Len(mdl.sessions) - 1
       ELSE newIndex
NewIndex(mdl, i, delta) ==
    LET newIndex == i + delta
    IN IF newIndex < 0 THEN Len(mdl.sessions) - 1
       ELSE IF newIndex >= Len(mdl.sessions) THEN 0
       ELSE newIndex

\* the end of navigateSession: the session at newIndex becomes the current
\* one and is captured
selectIndex(mdl, newIndex) ==
    captureCurrentSession(
        [mdl EXCEPT !.sessionIndex = newIndex,
                    !.currentSession = mdl.sessions[newIndex + 1].Name])

\* navigateSession once the sessions are refreshed: <<model, err>>
navigateRefreshed(mdl, delta) ==
    IF Len(mdl.sessions) = 0
    THEN <<mdl, Err("no hiho sessions available")>>
    ELSE IF mdl.currentSession = "" THEN selectIndex(mdl, 0)
    ELSE selectIndex(mdl, NewIndex(mdl, FindSession(mdl, 0, mdl.sessionIndex),
                                   delta))

\* navigateSession: <<model, err>>
navigateSession(mdl, delta) == navigateRefreshed(refreshSessions(mdl), delta)

\* a call whose error Update appends to the conversation
OrAppendError(r) ==
    IF r[2] # Nil THEN appendMessage(r[1], "error", r[2].text) ELSE r[1]

selectPrevSession(mdl) ==
    LET m1 == IF Len(mdl.sessions) = 0 THEN refreshSessions(mdl) ELSE mdl
    IN IF Len(m1.sessions) > 0 /\ m1.sessionIndex > 0
       THEN [m1 EXCEPT !.sessionIndex = @ - 1] ELSE m1

selectNextSession(mdl) ==
    LET m1 == IF Len(mdl.sessions) = 0 THEN refreshSessions(mdl) ELSE mdl
    IN IF Len(m1.sessions) > 0 /\ m1.sessionIndex < Len(m1.sessions) - 1
       THEN [m1 EXCEPT !.sessionIndex = @ + 1] ELSE m1

\* activateSelectedSession drops the error of captureCurrentSession
activateSelectedSession(mdl) ==
    LET m1 == IF Len(mdl.sessions) = 0 THEN refreshSessions(mdl) ELSE mdl
    IN IF m1.sessionIndex >= 0 /\ m1.sessionIndex < Len(m1.sessions)
       THEN [captureCurrentSession(
                 [m1 EXCEPT !.currentSession =
                                m1.sessions[m1.sessionIndex + 1].Name])[1]
             EXCEPT !.activeTab = tabTmux]
       ELSE m1

\* the CycleWindows key: sidebar -> main -> input -> sidebar; input.Focus()
\* and input.Blur() set and clear the focused flag of the input line
CycleFocus(mdl) ==
    CASE mdl.focus = focusSidebar -> [mdl EXCEPT !.focus = focusMain]
      [] mdl.focus = focusMain ->
           [mdl EXCEPT !.focus = focusInput, !.input.focused = TRUE]
      [] mdl.focus = focusInput ->
           [mdl EXCEPT !.focus = focusSidebar, !.input.focused = FALSE]

\* textinput.Model.Update on a key.  Backspace on a non-empty line (which
\* removes the last byte) is outside this model: no input of the
\* specifications produces it.
textinputUpdate(inp, key) ==
    CASE key = "backspace" /\ inp.ValueStr = "" -> inp
      [] key = "enter" \/ key = "ctrl+c" -> inp
      [] key \notin {"backspace", "enter", "ctrl+c"} ->
           IF inp.focused THEN [inp EXCEPT !.ValueStr = @ \o key] ELSE inp

(***************************************************************************)
(* Commands.  A line of input is a string; it is taken apart by writing it *)
(* as "/" followed by a command word, and then a space and an argument     *)
(* with blanks around it, over the words and arguments below.              *)
(***************************************************************************)
CommandWords ==
    {"help", "new", "next", "prev", "switch", "list", "sessions", "closeall",
     "view", "bogus"}

ArgTexts ==
    {"", "ls", "tmux", "session", "conversation", "other", "gone",
     "echo hi"}
    \cup {"hiho-" \o t : t \in NameTails}

Blanks == {"", " "}

\* the lines that strings.SplitN(strings.TrimPrefix(input, "/"), " ", 2)
\* and strings.TrimSpace take apart into the command c and the argument a
CommandForms(c, a) ==
    IF a = "" THEN {"/" \o c, "/" \o c \o " ", "/" \o c \o "  "}
    ELSE {"/" \o c \o " " \o b1 \o a \o b2 : b1 \in Blanks, b2 \in Blanks}

\* every command line of the tables
CommandLines ==
    UNION {CommandForms(c, a) : c \in CommandWords, a \in ArgTexts}

\* the command and the argument of every command line
ParseTable ==
    [line \in CommandLines |->
        CHOOSE p \in CommandWords \X ArgTexts :
            line \in CommandForms(p[1], p[2])]

\* strings.HasPrefix(input, "/")
IsCommand(input) == input \in CommandLines

ParseCommand(input) == ParseTable[input]

\* the notes typed into the input line in the specifications
Notes == {"note"}

\* strings.TrimSpace of the input line: of a command line or a note with
\* blanks around it, and of a text that has no blank at either end
TrimSpace(s) ==
    LET cores == {"/" \o c : c \in CommandWords} \cup Notes
        hit == {t \in cores : \E b1 \in Blanks, b2 \in Blanks :
                                  s = b1 \o t \o b2}
    IN IF s \in {" ", "  "} THEN ""
       ELSE IF hit # {} THEN CHOOSE t \in hit : TRUE
       ELSE s

commandHelp == "commandHelp"

\* the closeall case of handleCommand: <<model, err>>
closeAll_keepsCache(mdl) ==
    LET r == KillAllHiho(mdl.manager) IN
    IF r[2] # Nil THEN <<mdl, r[2]>>
    ELSE LET m1 == [mdl EXCEPT !.manager = r[1]]
             m2 == IF HasPrefixHiho(m1.currentSession)
                   THEN [m1 EXCEPT !.currentSession = "", !.sessionLog = ""]
                   ELSE m1
         IN <<appendMessage(m2, "info", "All hiho sessions closed"), Nil>>
closeAll(mdl) ==
    LET r == KillAllHiho(mdl.manager) IN
    IF r[2] # Nil THEN <<mdl, r[2]>>
    ELSE LET m1 == [mdl EXCEPT !.manager = r[1]]
             m2 == IF HasPrefixHiho(m1.currentSession)
                   THEN [m1 EXCEPT !.currentSession = "", !.sessionLog = ""]
                   ELSE m1
         IN <<appendMessage(refreshSessions(m2), "info",
                            "All hiho sessions closed"), Nil>>

\* the cases next, prev and switch of handleCommand, once the manager
\* answered r = <<session, err>>
SelectAnswered(mdl, r) ==
    IF r[2] # Nil THEN <<mdl, r[2]>>
    ELSE captureCurrentSession(
             refreshSessions([mdl EXCEPT !.currentSession = r[1].Name]))

RECURSIVE JoinNames(_, _)
\* strings.Join of the names of sessions
JoinNames(ss, sep) ==
    IF ss = <<>> THEN ""
    ELSE IF Len(ss) = 1 THEN ss[1].Name
    ELSE ss[1].Name \o sep \o JoinNames(Tail(ss), sep)

\* handleCommand: <<model, err>>
handleCommand(mdl, input) ==
    LET p == ParseCommand(input)
        command == p[1]
        arg == p[2]
    IN CASE command = "help" -> <<appendMessage(mdl, "info", commandHelp), Nil>>
         [] command = "new" ->
              IF arg = "" THEN <<mdl, Err("usage: /new <command>")>>
              ELSE LET r == NewSession(mdl.manager, arg) IN
                   IF r[3] # Nil THEN <<[mdl EXCEPT !.manager = r[1]], r[3]>>
                   ELSE captureCurrentSession(refreshSessions(
                            [mdl EXCEPT !.manager = r[1],
                                        !.currentSession = r[2].Name,
                                        !.activeTab = tabTmux]))
         [] command = "next" ->
              SelectAnswered(mdl, selectRelative(mdl.manager, mdl.currentSession,
                                              1))
         [] command = "prev" ->
              SelectAnswered(mdl, selectRelative(mdl.manager, mdl.currentSession,
                                              -1))
         [] command = "switch" ->
              IF arg = ""
              THEN IF mdl.activeTab = tabTmux THEN navigateSession(mdl, 1)
                   ELSE <<mdl, Err("usage: /switch <session>")>>
              ELSE SelectAnswered(mdl, Switch(mdl.manager, arg))
         [] command = "list" ->
              LET m1 == refreshSessions(mdl) IN
              IF Len(m1.sessions) = 0
              THEN <<appendMessage(m1, "info", "No hiho sessions found"), Nil>>
              ELSE <<appendMessage(m1, "sessions",
                                   JoinNames(m1.sessions, "\n")), Nil>>
         [] command = "sessions" ->
              LET r == List(mdl.manager) IN
              IF r[2] # Nil THEN <<mdl, r[2]>>
              ELSE <<appendMessage(mdl, "sessions", JoinNames(r[1], ", ")),
                     Nil>>
         [] command = "closeall" -> closeAll(mdl)
         [] command = "view" ->
              <<[mdl EXCEPT !.activeTab =
                     IF arg \in {"session", "tmux"} THEN tabTmux
                     ELSE tabConversation], Nil>>
         [] OTHER -> <<mdl, Err("unknown command: " \o command)>>

\* handleSubmit: <<model, err>>
handleSubmit(mdl, input) ==
    IF IsCommand(input) THEN handleCommand(mdl, input)
    ELSE <<appendMessage(mdl, "user", input), Nil>>

\* the legacy keys, reached when no earlier case returned
LegacyKey(mdl, key) ==
    IF key \in {"alt+h", "alt+j"} THEN OrAppendError(navigateSession(mdl, -1))
    ELSE IF key \in {"alt+l", "alt+k"}
    THEN OrAppendError(navigateSession(mdl, 1))
    ELSE mdl

\* the focus-specific keys of Update: <<handled, model>>, where an unhandled
\* key falls through to the legacy keys
FocusKey(mdl, key) ==
    LET kb == DefaultConfig IN
    CASE mdl.focus = focusSidebar /\ key \in {kb.SessionUp, "up", "k"} ->
           <<TRUE, selectPrevSession(mdl)>>
      [] mdl.focus = focusSidebar /\ key \in {kb.SessionDown, "down", "j"}
         /\ key \notin {kb.SessionUp, "up", "k"} ->
           <<TRUE, selectNextSession(mdl)>>
      [] mdl.focus = focusSidebar /\ key = "enter" ->
           <<TRUE, activateSelectedSession(mdl)>>
      [] mdl.focus = focusInput /\ key = "enter" ->
           LET value == TrimSpace(mdl.input.ValueStr) IN
           IF value = "" THEN <<TRUE, mdl>>
           ELSE <<TRUE, [OrAppendError(handleSubmit(mdl, value))
                         EXCEPT !.input.ValueStr = ""]>>
      [] mdl.focus = focusInput /\ key # "enter" ->
           <<TRUE, [mdl EXCEPT !.input = textinputUpdate(@, key)]>>
      [] OTHER -> <<FALSE, mdl>>

\* after the configurable keys: the answer r of the focus-specific keys,
\* or the legacy keys
FocusOrLegacy(mdl, key, r) ==
    IF r[1] THEN <<r[2], Nil>> ELSE <<LegacyKey(mdl, key), Nil>>

\* the first case of the configurable keys: the quit key, in every state
IsQuitKey_inputFocusOnly(mdl, key) ==
    key = DefaultConfig.Quit /\ mdl.focus = focusInput
IsQuitKey(mdl, key) == key = DefaultConfig.Quit

\* the KeyMsg case of Update
UpdateKey(mdl, key) ==
    LET kb == DefaultConfig IN
    CASE IsQuitKey(mdl, key) -> <<mdl, Quit>>
      [] key = kb.ToggleTab -> <<toggleTab(mdl), Nil>>
      [] key = kb.NextSession ->
           <<OrAppendError(navigateSession(mdl, 1)), Nil>>
      [] key = kb.PrevSession ->
           <<OrAppendError(navigateSession(mdl, -1)), Nil>>
      [] key = kb.CycleWindows -> <<CycleFocus(mdl), Nil>>
      [] OTHER -> FocusOrLegacy(mdl, key, FocusKey(mdl, key))

\* Model.Update: <<new model, cmd>>.  A window size sets width and height
\* (the viewport is not part of this state) and refreshes the sessions.
\* Mouse events (handleMouse) are outside this model: no input of the
\* specifications produces them.
\* the value of a Go int v when it lies in -2^16 .. 2^16-1, and Far or -Far
\* by its sign when it lies further out: the widths and heights it is
\* compared with are smaller than 2^16
Far == 2 ^ 30

IntNear(v) ==
    IF v[2] = 0 /\ v[3] = 0 /\ v[4] = 0 THEN v[1]
    ELSE IF v[2] = Limb - 1 /\ v[3] = Limb - 1 /\ v[4] = Limb - 1
    THEN v[1] - Limb
    ELSE IF v[4] >= Limb \div 2 THEN -Far
    ELSE Far

sidebarWidth(mdl) == mdl.width \div 3

mainWidth(mdl) == mdl.width - sidebarWidth(mdl)

bodyHeight(mdl) == mdl.height - 4

\* handleMouse at the click (x, y), a left click
handleClick(mdl, x, y) ==
    LET sidebarW == sidebarWidth(mdl)
        bodyH == bodyHeight(mdl)
        sessionIdx == y - 2
    IN IF x < sidebarW /\ y > 0 /\ y < bodyH
       THEN IF sessionIdx >= 0 /\ sessionIdx < Len(mdl.sessions)
            THEN [activateSelectedSession(
                      [mdl EXCEPT !.sessionIndex = sessionIdx])
                  EXCEPT !.focus = focusSidebar]
            ELSE mdl
       ELSE IF x >= sidebarW /\ y = 1
       THEN [mdl EXCEPT !.activeTab =
                 IF x - sidebarW < mainWidth(mdl) \div 2
                 THEN tabConversation ELSE tabTmux]
       ELSE IF y >= bodyH
       THEN [mdl EXCEPT !.focus = focusInput, !.input.focused = TRUE]
       ELSE IF x >= sidebarW /\ y > 1 /\ y < bodyH
       THEN [mdl EXCEPT !.focus = focusMain, !.input.focused = FALSE]
       ELSE mdl

handleMouse(mdl, msg) ==
    IF msg.Type # MouseLeft THEN mdl
    ELSE handleClick(mdl, IntNear(msg.X), IntNear(msg.Y))

Update(mdl, msg) ==
    CASE msg.type = "KeyMsg" -> UpdateKey(mdl, msg.Type)
      [] msg.type = "MouseMsg" -> <<handleMouse(mdl, msg), Nil>>
      [] msg.type = "WindowSizeMsg" ->
           <<refreshSessions([mdl EXCEPT !.width = msg.Width,
                                         !.height = msg.Height]), Nil>>
      [] msg.type \notin {"KeyMsg", "WindowSizeMsg", "MouseMsg"} -> <<mdl, Nil>>

\* Model.View: the frame is a function of the model; before the first size
\* is known it is the text "Loading..."
View(mdl) ==
    IF mdl.width = 0 \/ mdl.height = 0
    THEN [kind |-> "frame", text |-> "Loading..."]
    ELSE [kind |-> "frame", width |-> mdl.width, height |-> mdl.height,
          activeTab |-> mdl.activeTab, focus |-> mdl.focus,
          input |-> mdl.input.ValueStr, messages |-> mdl.messages,
          sessions |-> mdl.sessions, sessionIndex |-> mdl.sessionIndex,
          currentSession |-> mdl.currentSession,
          sessionLog |-> mdl.sessionLog]

(***************************************************************************)
(* Program.Run: the consumer (the goroutine that calls Run), the resize    *)
(* watcher and the stdin reader, around the message channel msgCh and the  *)
(* teardown signal done.                                                   *)
(***************************************************************************)
\* capacity of msgCh
ChanCap == 10

\* bounds of the model: stdin reads that return data, resize signals
MaxReads == 2
MaxSignals == 2

\* terminal dimensions the environment moves between
Sizes == {<<80, 24>>, <<120, 40>>}

\* the chunks one stdin read may return: ctrl+c; a NUL byte (no event); an
\* arrow key followed by a letter
Chunks ==
    { <<3>>,
      <<0>>,
      <<ESC, Ord("["), Ord("A"), Ord("b")>> }

VARIABLES
    isTTY,         \* whether stdin is a terminal that can be put in raw mode
    altScreen,     \* Program.altScreen
    mouseEnabled,  \* Program.mouseEnabled
    pcMain,        \* the position of the goroutine executing Run
    m,             \* Run's local m, the current model
    defers,        \* Run's deferred calls, in the order they were registered
    ret,           \* what Run returns, Nil until a return statement ran
    out,           \* what was printed to stdout, in order
    termState,     \* "cooked" or "raw": the mode of the terminal device
    termSize,      \* the current dimensions of the terminal
    msgCh,         \* the buffered channel, head first
    done,          \* "none" before it is made, then "open", then "closed"
    pcW,           \* the position of the resize watcher
    sigCh,         \* pending notifications in the watcher's sigCh (0 or 1)
    notified,      \* whether signal.Notify is in force
    wMsg,          \* the watcher's WindowSizeMsg waiting to be sent
    pcR,           \* the position of the stdin reader
    rMsgs,         \* the reader's msgs not yet sent
    readFailed,    \* whether a stdin read returned an error
    nReads,        \* stdin reads that returned data
    nSignals,      \* resize signals raised
    calls,         \* history: the calls of Init, Update, View, with caller
    ran,           \* history: the deferred calls run, in order
    inputLog,      \* history: the events decoded from stdin, in order
    resizeLog,     \* history: the resize events the watcher built, in order
    pcP,           \* the position of a call of parseInput run on its own
    pBuf,          \* parseInput's argument buf
    pI,            \* parseInput's scan position i (1-based)
    pMsgs,         \* parseInput's msgs, the events appended so far
    pcF,           \* the function called on its own last, "idle" before
    fArgs,         \* the arguments of that call
    fOut,          \* what that call returned
    nCalls         \* how many such calls were made

vars == <<isTTY, altScreen, mouseEnabled, pcMain, m, defers, ret, out,
          termState, termSize, msgCh, done, pcW, sigCh, notified, wMsg,
          pcR, rMsgs, readFailed, nReads, nSignals, calls, ran, inputLog,
          resizeLog, pcP, pBuf, pI, pMsgs, pcF, fArgs, fOut, nCalls>>

mainVars == <<pcMain, m, defers, ret, out, termState, calls, ran>>
watcherVars == <<pcW, sigCh, notified, wMsg, resizeLog>>
readerVars == <<pcR, rMsgs, readFailed, nReads, inputLog>>
optVars == <<isTTY, altScreen, mouseEnabled>>
scanVars == <<pcP, pBuf, pI, pMsgs>>
callVars == <<pcF, fArgs, fOut, nCalls>>
runVars == <<mainVars, termSize, msgCh, done, watcherVars, readerVars,
             nSignals>>

\* error values of Run
RawModeError == Err("failed to enter raw mode")

\* printed text and deferred calls
Text(s) == [kind |-> "text", s |-> s]

DeferPrint(s) == [f |-> "Print", s |-> s]
DeferRestore == [f |-> "Restore"]
DeferCloseDone == [f |-> "close(done)"]

AltScreenEnter == "ESC[?1049h"
AltScreenExit == "ESC[?1049l"
MouseEnable == <<"ESC[?1000h", "ESC[?1006h">>
CursorHide == "ESC[?25l"
CursorShow == "ESC[?25h"
ClearHome == "ESC[HESC[2J"

\* the two defer statements of the mouse block, in source order
MouseDisable_swapped == <<DeferPrint("ESC[?1006l"), DeferPrint("ESC[?1000l")>>
MouseDisable == <<DeferPrint("ESC[?1000l"), DeferPrint("ESC[?1006l")>>

\* the order in which deferred calls run: the reverse of their registration
RECURSIVE RunOrder(_)
RunOrder(ds) ==
    IF ds = <<>> THEN <<>>
    ELSE <<ds[Len(ds)]>> \o RunOrder(SubSeq(ds, 1, Len(ds) - 1))

\* what a run of deferred calls prints
RECURSIVE Printed(_)
Printed(ds) ==
    IF ds = <<>> THEN <<>>
    ELSE (IF Head(ds).f = "Print" THEN <<Text(Head(ds).s)>> ELSE <<>>)
         \o Printed(Tail(ds))

\* the render pass at the top of the loop: clear+home, then the view
Render_clearOnly(o, mdl) == o \o <<Text(ClearHome)>>
Render(o, mdl) == o \o <<Text(ClearHome), View(mdl)>>

\* a record of one call of a model method: the goroutine, the call site in
\* Run ("size", "init" or "loop"), the method and its argument
Call(g, site, f, arg) == [g |-> g, site |-> site, f |-> f, arg |-> arg]

\* channel operations on a buffered channel held as a sequence
ChanSend_lifo(ch, x) == <<x>> \o ch
ChanSend(ch, x) == Append(ch, x)

ChanHasRoom(ch) == Len(ch) < ChanCap

\* the state in which Run is entered, whatever the options
RunInit ==
    /\ pcMain = "makeraw"
    /\ m = NewModel
    /\ defers = <<>>
    /\ ret = Nil
    /\ out = <<>>
    /\ termState = "cooked"
    /\ termSize = <<80, 24>>
    /\ msgCh = <<>>
    /\ done = "none"
    /\ pcW = "idle"
    /\ sigCh = 0
    /\ notified = FALSE
    /\ wMsg = Nil
    /\ pcR = "idle"
    /\ rMsgs = <<>>
    /\ readFailed = FALSE
    /\ nReads = 0
    /\ nSignals = 0
    /\ calls = <<>>
    /\ ran = <<>>
    /\ inputLog = <<>>
    /\ resizeLog = <<>>

\* no call of parseInput is followed on its own
ScanIdle ==
    /\ pcP = "idle"
    /\ pBuf = <<>>
    /\ pI = 1
    /\ pMsgs = <<>>

\* no function is called on its own
CallIdle ==
    /\ pcF = "idle"
    /\ fArgs = <<>>
    /\ fOut = <<>>
    /\ nCalls = 0

Init ==
    /\ isTTY \in BOOLEAN
    /\ altScreen \in BOOLEAN
    /\ mouseEnabled \in BOOLEAN
    /\ RunInit
    /\ ScanIdle
    /\ CallIdle

(* ---- the consumer ---- *)

\* return statement: the results are fixed, then the deferred calls run
Return(model, err) ==
    /\ ret' = [model |-> model, err |-> err]
    /\ pcMain' = "teardown"

\* term.MakeRaw succeeds: the old state is saved and its restore deferred
M_MakeRawOk ==
    /\ pcMain = "makeraw"
    /\ isTTY
    /\ termState' = "raw"
    /\ defers' = Append(defers, DeferRestore)
    /\ pcMain' = "altscreen"
    /\ UNCHANGED <<m, ret, out, calls, ran>>
    /\ UNCHANGED <<optVars, scanVars, callVars, termSize, msgCh, done, watcherVars, readerVars,
                   nSignals>>

\* a mis-ordered variant: the failure is not returned and Run goes on
M_MakeRawFail_goesOn ==
    /\ pcMain = "makeraw"
    /\ ~isTTY
    /\ pcMain' = "altscreen"
    /\ UNCHANGED <<m, ret, out, termState, defers, calls, ran>>
    /\ UNCHANGED <<optVars, scanVars, callVars, termSize, msgCh, done, watcherVars, readerVars,
                   nSignals>>

\* term.MakeRaw fails: Run returns p.model and the wrapped error
M_MakeRawFail ==
    /\ pcMain = "makeraw"
    /\ ~isTTY
    /\ Return(NewModel, RawModeError)
    /\ UNCHANGED <<m, out, termState, defers, calls, ran>>
    /\ UNCHANGED <<optVars, scanVars, callVars, termSize, msgCh, done, watcherVars, readerVars,
                   nSignals>>

\* a variant that registers the exit sequence whatever the option
M_AltScreen_alwaysDefers ==
    /\ pcMain = "altscreen"
    /\ out' = IF altScreen THEN Append(out, Text(AltScreenEnter)) ELSE out
    /\ defers' = Append(defers, DeferPrint(AltScreenExit))
    /\ pcMain' = "mouse"
    /\ UNCHANGED <<m, ret, termState, calls, ran>>
    /\ UNCHANGED <<optVars, scanVars, callVars, termSize, msgCh, done, watcherVars, readerVars,
                   nSignals>>

M_AltScreen ==
    /\ pcMain = "altscreen"
    /\ IF altScreen
       THEN /\ out' = Append(out, Text(AltScreenEnter))
            /\ defers' = Append(defers, DeferPrint(AltScreenExit))
       ELSE UNCHANGED <<out, defers>>
    /\ pcMain' = "mouse"
    /\ UNCHANGED <<m, ret, termState, calls, ran>>
    /\ UNCHANGED <<optVars, scanVars, callVars, termSize, msgCh, done, watcherVars, readerVars,
                   nSignals>>

M_Mouse ==
    /\ pcMain = "mouse"
    /\ IF mouseEnabled
       THEN /\ out' = out \o <<Text(MouseEnable[1]), Text(MouseEnable[2])>>
            /\ defers' = defers \o MouseDisable
       ELSE UNCHANGED <<out, defers>>
    /\ pcMain' = "cursor"
    /\ UNCHANGED <<m, ret, termState, calls, ran>>
    /\ UNCHANGED <<optVars, scanVars, callVars, termSize, msgCh, done, watcherVars, readerVars,
                   nSignals>>

M_HideCursor ==
    /\ pcMain = "cursor"
    /\ out' = Append(out, Text(CursorHide))
    /\ defers' = Append(defers, DeferPrint(CursorShow))
    /\ pcMain' = "spawn"
    /\ UNCHANGED <<m, ret, termState, calls, ran>>
    /\ UNCHANGED <<optVars, scanVars, callVars, termSize, msgCh, done, watcherVars, readerVars,
                   nSignals>>

\* m := p.model; the channels are made, close(done) is deferred and the two
\* producer goroutines are started
M_Spawn ==
    /\ pcMain = "spawn"
    /\ m' = NewModel
    /\ msgCh' = <<>>
    /\ done' = "open"
    /\ defers' = Append(defers, DeferCloseDone)
    /\ pcW' = "start"
    /\ pcR' = "read"
    /\ pcMain' = "size"
    /\ UNCHANGED <<ret, out, termState, calls, ran>>
    /\ UNCHANGED <<optVars, scanVars, callVars, termSize, sigCh, notified, wMsg, resizeLog,
                   rMsgs, readFailed, nReads, inputLog, nSignals>>

\* a variant that hands the initial size to the channel like any other event
M_InitialSize_viaChannel ==
    /\ pcMain = "size"
    /\ ChanHasRoom(msgCh)
    /\ msgCh' = ChanSend(msgCh, WindowSizeMsg(termSize[1], termSize[2]))
    /\ pcMain' = "init"
    /\ UNCHANGED <<m, defers, ret, out, termState, calls, ran>>
    /\ UNCHANGED <<optVars, scanVars, callVars, termSize, done, watcherVars, readerVars, nSignals>>

\* the initial window size is read and given to Update; its cmd is dropped
M_InitialSize ==
    /\ pcMain = "size"
    /\ LET first == WindowSizeMsg(termSize[1], termSize[2])
       IN /\ m' = Update(m, first)[1]
          /\ calls' = Append(calls, Call("main", "size", "Update", first))
    /\ pcMain' = "init"
    /\ UNCHANGED <<defers, ret, out, termState, ran>>
    /\ UNCHANGED <<optVars, scanVars, callVars, termSize, msgCh, done, watcherVars, readerVars,
                   nSignals>>

\* the init command: run when not nil, its message given to Update when not
\* nil; then the loop is entered and the first frame printed
M_Init ==
    /\ pcMain = "init"
    /\ LET cmd == ModelInit(m)
           imsg == IF cmd = Nil THEN Nil ELSE cmd.yields
           m1 == IF imsg # Nil THEN Update(m, imsg)[1] ELSE m
       IN /\ m' = m1
          /\ calls' = calls \o <<Call("main", "init", "Init", Nil)>>
                      \o (IF imsg # Nil THEN <<Call("main", "init", "Update", imsg)>>
                          ELSE <<>>)
                      \o <<Call("main", "loop", "View", Nil)>>
          /\ out' = Render(out, m1)
    /\ pcMain' = "recv"
    /\ UNCHANGED <<defers, ret, termState, ran>>
    /\ UNCHANGED <<optVars, scanVars, callVars, termSize, msgCh, done, watcherVars, readerVars,
                   nSignals>>

\* a variant that leaves the loop only once the channel is drained
M_Update_drainsFirst ==
    /\ pcMain = "recv"
    /\ msgCh # <<>>
    /\ msgCh' = Tail(msgCh)
    /\ LET r == Update(m, Head(msgCh))
       IN /\ m' = r[1]
          /\ IF r[2] # Nil /\ r[2].yields = quitMsg /\ Tail(msgCh) = <<>>
             THEN /\ Return(r[1], Nil)
                  /\ calls' = Append(calls, Call("main", "loop", "Update", Head(msgCh)))
                  /\ out' = out
             ELSE /\ pcMain' = "recv"
                  /\ ret' = ret
                  /\ calls' = calls \o <<Call("main", "loop", "Update", Head(msgCh)),
                                         Call("main", "loop", "View", Nil)>>
                  /\ out' = Render(out, r[1])
    /\ UNCHANGED <<defers, termState, ran>>
    /\ UNCHANGED <<optVars, scanVars, callVars, termSize, done, watcherVars, readerVars, nSignals>>

\* one turn of the main loop from its blocking point: msg := <-msgCh;
\* m, cmd = m.Update(msg); a cmd that yields the quit message ends the loop
\* with return m, nil; otherwise the next frame is printed and the loop
\* blocks on the channel again
M_Update ==
    /\ pcMain = "recv"
    /\ msgCh # <<>>
    /\ msgCh' = Tail(msgCh)
    /\ LET r == Update(m, Head(msgCh))
       IN /\ m' = r[1]
          /\ IF r[2] # Nil /\ r[2].yields = quitMsg
             THEN /\ Return(r[1], Nil)
                  /\ calls' = Append(calls, Call("main", "loop", "Update", Head(msgCh)))
                  /\ out' = out
             ELSE /\ pcMain' = "recv"
                  /\ ret' = ret
                  /\ calls' = calls \o <<Call("main", "loop", "Update", Head(msgCh)),
                                         Call("main", "loop", "View", Nil)>>
                  /\ out' = Render(out, r[1])
    /\ UNCHANGED <<defers, termState, ran>>
    /\ UNCHANGED <<optVars, scanVars, callVars, termSize, done, watcherVars, readerVars, nSignals>>

\* the deferred calls run, last registered first, and Run hands its results
\* to the caller.  Only close(done) is visible to the producers, and it is
\* the first to run when it was registered.
M_Teardown ==
    /\ pcMain = "teardown"
    /\ ran' = ran \o RunOrder(defers)
    /\ out' = out \o Printed(RunOrder(defers))
    /\ termState' = IF \E i \in 1..Len(defers) : defers[i].f = "Restore"
                    THEN "cooked" ELSE termState
    /\ done' = IF \E i \in 1..Len(defers) : defers[i].f = "close(done)"
               THEN "closed" ELSE done
    /\ defers' = <<>>
    /\ pcMain' = "returned"
    /\ UNCHANGED <<m, ret, calls>>
    /\ UNCHANGED <<optVars, scanVars, callVars, termSize, msgCh, watcherVars, readerVars, nSignals>>

(* ---- the resize watcher ---- *)

\* signal.Notify(sigCh, SIGWINCH); signal.Stop is deferred
W_Start ==
    /\ pcW = "start"
    /\ notified' = TRUE
    /\ pcW' = "select"
    /\ UNCHANGED <<sigCh, wMsg, resizeLog>>
    /\ UNCHANGED <<optVars, scanVars, callVars, mainVars, termSize, msgCh, done, readerVars,
                   nSignals>>

\* case <-sigCh
W_Signal ==
    /\ pcW = "select"
    /\ sigCh > 0
    /\ sigCh' = sigCh - 1
    /\ pcW' = "getsize"
    /\ UNCHANGED <<notified, wMsg, resizeLog>>
    /\ UNCHANGED <<optVars, scanVars, callVars, mainVars, termSize, msgCh, done, readerVars,
                   nSignals>>

\* w, h, _ := term.GetSize(...): the event carries the size read now
W_GetSize ==
    /\ pcW = "getsize"
    /\ wMsg' = WindowSizeMsg(termSize[1], termSize[2])
    /\ resizeLog' = Append(resizeLog, wMsg')
    /\ pcW' = "send"
    /\ UNCHANGED <<sigCh, notified>>
    /\ UNCHANGED <<optVars, scanVars, callVars, mainVars, termSize, msgCh, done, readerVars,
                   nSignals>>

\* case msgCh <- WindowSizeMsg{...}
W_Send ==
    /\ pcW = "send"
    /\ ChanHasRoom(msgCh)
    /\ msgCh' = ChanSend(msgCh, wMsg)
    /\ wMsg' = Nil
    /\ pcW' = "select"
    /\ UNCHANGED <<sigCh, notified, resizeLog>>
    /\ UNCHANGED <<optVars, scanVars, callVars, mainVars, termSize, done, readerVars, nSignals>>

\* case <-done, in the outer or the inner select: return, and the deferred
\* signal.Stop runs
W_Done ==
    /\ pcW \in {"select", "send"}
    /\ done = "closed"
    /\ pcW' = "exit"
    /\ notified' = FALSE
    /\ wMsg' = Nil
    /\ UNCHANGED <<sigCh, resizeLog>>
    /\ UNCHANGED <<optVars, scanVars, callVars, mainVars, termSize, msgCh, done, readerVars,
                   nSignals>>

(* ---- the stdin reader ---- *)

\* os.Stdin.Read returns a chunk, which is decoded
\* a variant that keeps an escape byte that ended the read before and
\* decodes it together with the next chunk
R_Read_reassembles(chunk) ==
    /\ pcR = "read"
    /\ nReads < MaxReads
    /\ nReads' = nReads + 1
    /\ LET held == inputLog # <<>> /\ inputLog[Len(inputLog)] = KeyMsg("esc")
           msgs == IF held THEN parseInput(<<ESC>> \o chunk)
                   ELSE parseInput(chunk)
       IN /\ rMsgs' = msgs
          /\ inputLog' = IF held
                         THEN SubSeq(inputLog, 1, Len(inputLog) - 1) \o msgs
                         ELSE inputLog \o msgs
          /\ pcR' = IF msgs = <<>> THEN "read" ELSE "send"
    /\ UNCHANGED readFailed
    /\ UNCHANGED <<optVars, scanVars, callVars, mainVars, termSize, msgCh, done, watcherVars,
                   nSignals>>
R_Read(chunk) ==
    /\ pcR = "read"
    /\ nReads < MaxReads
    /\ nReads' = nReads + 1
    /\ LET msgs == parseInput(chunk)
       IN /\ rMsgs' = msgs
          /\ inputLog' = inputLog \o msgs
          /\ pcR' = IF msgs = <<>> THEN "read" ELSE "send"
    /\ UNCHANGED readFailed
    /\ UNCHANGED <<optVars, scanVars, callVars, mainVars, termSize, msgCh, done, watcherVars,
                   nSignals>>

\* os.Stdin.Read returns an error: the goroutine returns, done closed or not
R_ReadErr ==
    /\ pcR = "read"
    /\ readFailed' = TRUE
    /\ pcR' = "exit"
    /\ UNCHANGED <<rMsgs, nReads, inputLog>>
    /\ UNCHANGED <<optVars, scanVars, callVars, mainVars, termSize, msgCh, done, watcherVars,
                   nSignals>>

\* a variant in which the reader applies the event to the model itself
R_Send_callsUpdate ==
    /\ pcR = "send"
    /\ pcMain = "recv"
    /\ m' = Update(m, Head(rMsgs))[1]
    /\ calls' = Append(calls, Call("reader", "loop", "Update", Head(rMsgs)))
    /\ rMsgs' = Tail(rMsgs)
    /\ pcR' = IF Tail(rMsgs) = <<>> THEN "read" ELSE "send"
    /\ UNCHANGED <<readFailed, nReads, inputLog>>
    /\ UNCHANGED <<pcMain, defers, ret, out, termState, ran>>
    /\ UNCHANGED <<optVars, scanVars, callVars, termSize, msgCh, done, watcherVars, nSignals>>

\* a variant that sends without blocking: with the channel full the event
\* is given up
R_Send_dropsWhenFull ==
    /\ pcR = "send"
    /\ msgCh' = IF ChanHasRoom(msgCh) THEN ChanSend(msgCh, Head(rMsgs))
                ELSE msgCh
    /\ rMsgs' = Tail(rMsgs)
    /\ pcR' = IF Tail(rMsgs) = <<>> THEN "read" ELSE "send"
    /\ UNCHANGED <<readFailed, nReads, inputLog>>
    /\ UNCHANGED <<optVars, scanVars, callVars, mainVars, termSize, done, watcherVars,
                   nSignals>>

\* case msgCh <- msg, for the next msg of the chunk
R_Send ==
    /\ pcR = "send"
    /\ ChanHasRoom(msgCh)
    /\ msgCh' = ChanSend(msgCh, Head(rMsgs))
    /\ rMsgs' = Tail(rMsgs)
    /\ pcR' = IF Tail(rMsgs) = <<>> THEN "read" ELSE "send"
    /\ UNCHANGED <<readFailed, nReads, inputLog>>
    /\ UNCHANGED <<optVars, scanVars, callVars, mainVars, termSize, done, watcherVars, nSignals>>

\* case <-done while sending
R_Done ==
    /\ pcR = "send"
    /\ done = "closed"
    /\ pcR' = "exit"
    /\ rMsgs' = <<>>
    /\ UNCHANGED <<readFailed, nReads, inputLog>>
    /\ UNCHANGED <<optVars, scanVars, callVars, mainVars, termSize, msgCh, done, watcherVars,
                   nSignals>>

(* ---- the environment ---- *)

\* the terminal is resized to another size: SIGWINCH is raised and, when a Notify is in
\* force, one notification is kept in sigCh (capacity 1), further ones
\* being dropped
E_Resize(sz) ==
    /\ nSignals < MaxSignals
    /\ sz # termSize
    /\ nSignals' = nSignals + 1
    /\ termSize' = sz
    /\ sigCh' = IF notified THEN 1 ELSE sigCh
    /\ UNCHANGED <<pcW, notified, wMsg, resizeLog>>
    /\ UNCHANGED <<optVars, scanVars, callVars, mainVars, msgCh, done, readerVars>>

MainStep ==
    \/ M_MakeRawOk
    \/ M_MakeRawFail
    \/ M_AltScreen
    \/ M_Mouse
    \/ M_HideCursor
    \/ M_Spawn
    \/ M_InitialSize
    \/ M_Init
    \/ M_Update
    \/ M_Teardown

WatcherStep ==
    \/ W_Start
    \/ W_Signal
    \/ W_GetSize
    \/ W_Send
    \/ W_Done

\* the steps the reader takes by itself (a read returns when the
\* environment has input or an error for it)
ReaderStep ==
    \/ R_Send
    \/ R_Done

Next ==
    \/ MainStep
    \/ WatcherStep
    \/ ReaderStep
    \/ \E chunk \in Chunks : R_Read(chunk)
    \/ R_ReadErr
    \/ \E sz \in Sizes : E_Resize(sz)

Spec == Init /\ [][Next]_vars

\* the goroutine scheduler runs every goroutine that can take a step; the
\* environment (input, read errors, resizes) owes nothing
FairSpec ==
    /\ Spec
    /\ WF_vars(MainStep)
    /\ WF_vars(WatcherStep)
    /\ WF_vars(ReaderStep)

(***************************************************************************)
(* Run with a burst of input: one read returns more keys than the channel  *)
(* holds.                                                                  *)
(***************************************************************************)
MaxBurstSignals == 1

\* ChanCap + 2 different letters, and the quit key
BurstChunks ==
    {[k \in 1..(ChanCap + 2) |-> Ord("a") + k - 1], <<3>>}

\* Run on a terminal or not, without alternate screen and mouse reporting
BurstInit ==
    /\ isTTY \in BOOLEAN
    /\ altScreen = FALSE
    /\ mouseEnabled = FALSE
    /\ RunInit
    /\ ScanIdle
    /\ CallIdle

\* the first read returns the burst or the quit key, later ones the quit
\* key; the terminal is resized at most MaxBurstSignals times
BurstNext ==
    \/ MainStep
    \/ WatcherStep
    \/ ReaderStep
    \/ \E chunk \in BurstChunks :
          /\ Len(chunk) > 1 => nReads = 0
          /\ R_Read(chunk)
    \/ R_ReadErr
    \/ \E sz \in Sizes :
          /\ nSignals < MaxBurstSignals
          /\ E_Resize(sz)

BurstSpec == BurstInit /\ [][BurstNext]_vars

(***************************************************************************)
(* Run with keys that move the model through its focus areas and tabs and *)
(* fill the input line before the quit key arrives: the first read returns *)
(* any of the chunks, later reads one that ends with the quit key.         *)
(***************************************************************************)
\* a letter, then ctrl+o and tab; ctrl+o twice; tab; the quit key, alone and
\* behind a letter
QuitChunks ==
    { <<Ord("a"), 15, 9>>,
      <<15, 15>>,
      <<9>>,
      <<3>>,
      <<Ord("a"), 3>> }

QuitNext ==
    \/ MainStep
    \/ WatcherStep
    \/ ReaderStep
    \/ \E chunk \in QuitChunks :
          /\ chunk[Len(chunk)] # 3 => nReads = 0
          /\ R_Read(chunk)
    \/ R_ReadErr
    \/ \E sz \in Sizes :
          /\ nSignals < MaxBurstSignals
          /\ E_Resize(sz)

QuitSpec == BurstInit /\ [][QuitNext]_vars

QuitFairSpec ==
    /\ QuitSpec
    /\ WF_vars(MainStep)
    /\ WF_vars(WatcherStep)
    /\ WF_vars(ReaderStep)

(***************************************************************************)
(* parseInput followed on its own, one loop iteration at a time, on the    *)
(* chunks a read can hand to it.                                           *)
(***************************************************************************)
MaxLen == 3
MaxCb == 127

\* the decimal digits of a number, as bytes
RECURSIVE Dec(_)
Dec(n) ==
    IF n < 10 THEN <<Ord("0") + n>>
    ELSE Append(Dec(n \div 10), Ord("0") + (n % 10))

\* the bytes of a string of digits, given digit by digit
DigitBytes(ds) == [k \in 1..Len(ds) |-> Ord("0") + ds[k]]

ScanAlphabet ==
    {0, 7, ESC, Ord("["), Ord("<"), Ord("1"), Ord(";"), Ord("~"), Ord("A"),
     Ord("O"), Ord("M")}

\* every chunk of at most MaxLen bytes of the alphabet
ShortChunks == UNION {[1..n -> ScanAlphabet] : n \in 0..MaxLen}

SingleBytes == {<<b>> : b \in 0..255}

ModifiedChunks ==
    {<<ESC, Ord("["), Ord("1"), Ord(";"), d, f>> :
        d \in Ord("1")..Ord("9"),
        f \in {Ord("A"), Ord("B"), Ord("C"), Ord("D"), Ord("H"), Ord("F"),
               Ord("Z"), Ord("Q")}}

TildeChunks ==
    {<<ESC, Ord("["), n, Ord("~")>> : n \in Ord("0")..Ord("9")}
    \cup {<<ESC, Ord("["), Ord("1"), Ord("5"), Ord("~")>>}

\* coordinates as they are written on the wire: small ones, one with
\* leading zeros, 2^31, 2^63 - 1, 2^63 and 2^64 + 1
CoordDigits ==
    {Dec(1), Dec(5), Dec(10), Dec(223), <<Ord("0"), Ord("0"), Ord("7")>>,
     DigitBytes(<<2, 1, 4, 7, 4, 8, 3, 6, 4, 8>>),
     DigitBytes(<<9, 2, 2, 3, 3, 7, 2, 0, 3, 6, 8, 5, 4, 7, 7, 5, 8, 0, 7>>),
     DigitBytes(<<9, 2, 2, 3, 3, 7, 2, 0, 3, 6, 8, 5, 4, 7, 7, 5, 8, 0, 8>>),
     DigitBytes(<<1, 8, 4, 4, 6, 7, 4, 4, 0, 7, 3, 7, 0, 9, 5, 5, 1, 6, 1, 7>>)}

RowDigits == {Dec(1), Dec(5), Dec(40)}

MouseReport(cbD, cxD, cyD, t) ==
    <<ESC, Ord("["), Ord("<")>> \o cbD \o <<Ord(";")>> \o cxD
    \o <<Ord(";")>> \o cyD \o <<t>>

\* every button code at one cell, and some button codes at every cell
MouseChunks ==
    {MouseReport(Dec(cb), Dec(1), Dec(1), t) :
        cb \in 0..MaxCb, t \in {Ord("M"), Ord("m")}}
    \cup {MouseReport(Dec(cb), cxD, cyD, t) :
            cb \in {0, 35, 64}, cxD \in CoordDigits, cyD \in RowDigits,
            t \in {Ord("M"), Ord("m")}}

\* reports cut short or ended by another byte
BrokenMouseChunks ==
    {<<ESC, Ord("["), Ord("<"), Ord("0"), Ord(";"), Ord("1")>>,
     <<ESC, Ord("["), Ord("<"), Ord("0"), Ord(";"), Ord("1"), Ord(";")>>,
     <<ESC, Ord("["), Ord("<"), Ord("0"), Ord(";"), Ord("1"), Ord(";"),
       Ord("1"), Ord("X")>>}

\* ESC followed by any byte, at the end of the chunk or before a letter
AltChunks ==
    {<<ESC, c>> : c \in 0..255} \cup {<<ESC, c, Ord("x")>> : c \in 0..255}

ScanChunks ==
    ShortChunks \cup SingleBytes \cup ModifiedChunks \cup TildeChunks
    \cup MouseChunks \cup BrokenMouseChunks \cup AltChunks

\* Run is not started; parseInput is not called yet
ScanInit ==
    /\ isTTY = TRUE
    /\ altScreen = FALSE
    /\ mouseEnabled = FALSE
    /\ RunInit
    /\ ScanIdle
    /\ CallIdle

\* parseInput(buf) is called with some chunk: var msgs []Msg; i := 0
P_Call ==
    /\ pcP = "idle"
    /\ pcP' = "loop"
    /\ pBuf' \in ScanChunks
    /\ pI' = 1
    /\ pMsgs' = <<>>
    /\ UNCHANGED <<optVars, runVars, callVars>>

\* one iteration of for i := 0; i < len(buf); { ... }
P_Step ==
    /\ pcP = "loop"
    /\ pI <= Len(pBuf)
    /\ pMsgs' = pMsgs \o ScanStep(pBuf, pI)[1]
    /\ pI' = pI + ScanStep(pBuf, pI)[2]
    /\ UNCHANGED <<pcP, pBuf>>
    /\ UNCHANGED <<optVars, runVars, callVars>>

\* the loop condition fails: return msgs
P_Return ==
    /\ pcP = "loop"
    /\ pI > Len(pBuf)
    /\ pcP' = "returned"
    /\ UNCHANGED <<pBuf, pI, pMsgs>>
    /\ UNCHANGED <<optVars, runVars, callVars>>

ScanNext ==
    \/ P_Call
    \/ P_Step
    \/ P_Return

ScanSpec == ScanInit /\ [][ScanNext]_vars

\* mouse reports whose fields are empty, zero or one: ESC[<;;M, ESC[<0;0;0M,
\* ESC[<0;1;0m, ...
ZeroDigits == {<<>>, Dec(0), <<Ord("0"), Ord("0")>>, Dec(1)}

ZeroMouseChunks ==
    {MouseReport(cbD, cxD, cyD, t) :
        cbD \in {<<>>, Dec(0), Dec(35)}, cxD \in ZeroDigits,
        cyD \in ZeroDigits, t \in {Ord("M"), Ord("m")}}

\* parseInput(buf) is called on one of these reports
P_CallZero ==
    /\ pcP = "idle"
    /\ pcP' = "loop"
    /\ pBuf' \in ZeroMouseChunks
    /\ pI' = 1
    /\ pMsgs' = <<>>
    /\ UNCHANGED <<optVars, runVars, callVars>>

ZeroNext ==
    \/ P_CallZero
    \/ P_Step
    \/ P_Return

ZeroSpec == ScanInit /\ [][ZeroNext]_vars

\* a call that was made runs on
ScanFairSpec == ScanSpec /\ WF_vars(P_Step \/ P_Return)

(***************************************************************************)
(* The layout functions called on their own: one call of Style.Render or   *)
(* of JoinHorizontal on some arguments.                                    *)
(***************************************************************************)
MaxText == 3
MaxDim == 3

\* every string of at most n bytes of an alphabet
Texts(alphabet, n) == UNION {[1..k -> alphabet] : k \in 0..n}

\* a letter, the space, the newline, the bytes of an escape sequence and
\* the two bytes of U+00E9
RenderAlphabet == {Ord("a"), SP, NL, ESC, Ord("m"), 195, 169}

\* styles with a fixed width and height (0: not set), plain or bold, and
\* bordered styles with a fixed width
RenderStyles ==
    {[NewStyle EXCEPT !.width = w, !.height = h, !.bold = b] :
        w \in 0..MaxDim, h \in 0..MaxDim, b \in BOOLEAN}
    \cup {[NewStyle EXCEPT !.width = w, !.border = TRUE] : w \in 0..MaxDim}

JoinAlphabet == {Ord("A"), NL, ESC, Ord("m")}

\* two parts of at most MaxText bytes, three shorter parts without escape
\* bytes, the parts "AB" and "C", and three parts of which the first two
\* are the two bytes of U+00E9
JoinParts ==
    {<<a, b>> : a \in Texts(JoinAlphabet, MaxText),
                b \in Texts(JoinAlphabet, MaxText)}
    \cup {<<a, b, c>> : a \in Texts({Ord("A"), NL}, MaxText - 1),
                        b \in Texts({Ord("A"), NL}, MaxText - 1),
                        c \in Texts({Ord("A"), NL}, MaxText - 1)}
    \cup {<<<<Ord("A"), Ord("B")>>, <<Ord("C")>>>>,
          <<<<195>>, <<169>>, <<Ord("A")>>>>}

\* Run is not started; no layout function is called yet
LayoutInit ==
    /\ isTTY = TRUE
    /\ altScreen = FALSE
    /\ mouseEnabled = FALSE
    /\ RunInit
    /\ ScanIdle
    /\ CallIdle

\* style.Render(content) is called and returns
F_Render ==
    /\ pcF = "idle"
    /\ pcF' = "Render"
    /\ fArgs' \in RenderStyles \X Texts(RenderAlphabet, MaxText)
    /\ fOut' = StyleRender(fArgs'[1], fArgs'[2])
    /\ nCalls' = nCalls + 1
    /\ UNCHANGED <<optVars, runVars, scanVars>>

\* JoinHorizontal(pos, parts...) is called and returns
F_JoinHorizontal ==
    /\ pcF = "idle"
    /\ pcF' = "JoinHorizontal"
    /\ fArgs' \in JoinParts
    /\ fOut' = JoinHorizontal(fArgs')
    /\ nCalls' = nCalls + 1
    /\ UNCHANGED <<optVars, runVars, scanVars>>

LayoutNext ==
    \/ F_Render
    \/ F_JoinHorizontal

LayoutSpec == LayoutInit /\ [][LayoutNext]_vars

(***************************************************************************)
(* The application model called on its own: Update on keys and on a window *)
(* size, handleSubmit on command lines and navigateSession, from the model *)
(* NewModel returns, over a tmux server that holds some sessions.  The     *)
(* variable m holds the model between the calls.                           *)
(***************************************************************************)
\* how many calls are followed
MaxUICalls == 3

\* what the tmux server may hold when the program starts
InitialSessions ==
    {<<>>,
     <<"other">>,
     <<"hiho-" \o Itoa(Pid) \o "-0", "other", "hiho-" \o Itoa(Pid) \o "-1">>}

\* the keys pressed: the session shortcuts, the focus and tab keys, enter
UIKeys ==
    {"alt+left", "alt+right", "alt+h", "alt+j", "alt+k", "alt+l", "alt+up",
     "alt+down", "ctrl+o", "tab", "enter", "down"}

\* the lines submitted
UILines == {"/closeall", "/new ls", "/switch other", "note"}

uiFrame ==
    <<optVars, scanVars, pcMain, defers, ret, out, termState, calls, ran,
      termSize, msgCh, done, watcherVars, readerVars, nSignals>>

UIInit ==
    /\ isTTY = TRUE
    /\ altScreen = FALSE
    /\ mouseEnabled = FALSE
    /\ pcMain = "makeraw"
    /\ m \in {[NewModel EXCEPT !.manager.sessions = s] : s \in InitialSessions}
    /\ defers = <<>>
    /\ ret = Nil
    /\ out = <<>>
    /\ termState = "cooked"
    /\ termSize = <<80, 24>>
    /\ msgCh = <<>>
    /\ done = "none"
    /\ pcW = "idle"
    /\ sigCh = 0
    /\ notified = FALSE
    /\ wMsg = Nil
    /\ pcR = "idle"
    /\ rMsgs = <<>>
    /\ readFailed = FALSE
    /\ nReads = 0
    /\ nSignals = 0
    /\ calls = <<>>
    /\ ran = <<>>
    /\ inputLog = <<>>
    /\ resizeLog = <<>>
    /\ ScanIdle
    /\ CallIdle

\* Update(msg) is called on the model and returns
U_Update(msg) ==
    /\ nCalls < MaxUICalls
    /\ pcF' = "Update"
    /\ fArgs' = <<m, msg>>
    /\ fOut' = Update(m, msg)
    /\ m' = fOut'[1]
    /\ nCalls' = nCalls + 1
    /\ UNCHANGED uiFrame

U_Key == \E key \in UIKeys : U_Update(KeyMsg(key))

U_Resize == U_Update(WindowSizeMsg(80, 24))

\* handleSubmit(input) is called on the model and returns; the clock and the
\* random source stand wherever the time of the call put them
U_Submit ==
    /\ nCalls < MaxUICalls
    /\ \E input \in UILines, rnd \in Rands :
         LET m0 == [m EXCEPT !.manager.rnd = rnd] IN
         /\ input # "/new ls" => rnd = m.manager.rnd
         /\ pcF' = "handleSubmit"
         /\ fArgs' = <<m0, input>>
         /\ fOut' = handleSubmit(m0, input)
    /\ m' = fOut'[1]
    /\ nCalls' = nCalls + 1
    /\ UNCHANGED uiFrame

\* navigateSession(delta) is called on the model and returns
U_Navigate ==
    /\ nCalls < MaxUICalls
    /\ \E delta \in {1, -1} :
         /\ pcF' = "navigateSession"
         /\ fArgs' = <<m, delta>>
         /\ fOut' = navigateSession(m, delta)
    /\ m' = fOut'[1]
    /\ nCalls' = nCalls + 1
    /\ UNCHANGED uiFrame

\* Manager.NewSession(cmd) is called and returns, at some time of the clock
U_NewSession ==
    /\ nCalls < MaxUICalls
    /\ \E nano \in Nanos, rnd \in Rands :
         /\ pcF' = "NewSession"
         /\ fArgs' = <<[m.manager EXCEPT !.nano = nano, !.rnd = rnd], "true">>
         /\ fOut' = NewSession(fArgs'[1], fArgs'[2])
    /\ m' = [m EXCEPT !.manager = fOut'[1]]
    /\ nCalls' = nCalls + 1
    /\ UNCHANGED uiFrame

UINext ==
    \/ U_NewSession
    \/ U_Key
    \/ U_Resize
    \/ U_Submit
    \/ U_Navigate

UISpec == UIInit /\ [][UINext]_vars

(***************************************************************************)
(* The slash commands over a tmux that may fail: handleSubmit is called on *)
(* a command line while some of the manager's tmux commands exit with an   *)
(* error.                                                                  *)
(***************************************************************************)
\* how many command lines are followed
MaxCmdCalls == 2

\* the lines submitted
CmdLines ==
    {"/new ls", "/new echo hi ", "/new", "/next", "/prev", "/switch", "/switch other",
     "/switch gone", "/closeall", "/view tmux", "/list", "/sessions",
     "/bogus"}

\* the calls of the manager
ManagerCalls == {"NewSession", "Capture", "List", "ListHiho", "KillAllHiho"}

\* which calls fail while one line is handled: none, the capture alone, or
\* every call but the capture
FailSets == {{}, {"Capture"}, ManagerCalls \ {"Capture"}}

\* handleSubmit(input) is called on the model and returns, while the calls
\* in fails fail
X_Submit(fails) ==
    /\ nCalls < MaxCmdCalls
    /\ \E input \in CmdLines, rnd \in Rands :
         LET m0 == [m EXCEPT !.manager.rnd = rnd, !.manager.fails = fails] IN
         /\ ParseCommand(input) \notin {<<"new", "ls">>, <<"new", "echo hi">>}
                => rnd = m.manager.rnd
         /\ pcF' = "handleSubmit"
         /\ fArgs' = <<m0, input>>
         /\ fOut' = handleSubmit(m0, input)
    /\ m' = [fOut'[1] EXCEPT !.manager.fails = {}]
    /\ nCalls' = nCalls + 1
    /\ UNCHANGED uiFrame

X_Works == X_Submit({})

X_Fails == \E fails \in FailSets \ {{}} : X_Submit(fails)

CmdNext ==
    \/ X_Works
    \/ X_Fails

CmdSpec == UIInit /\ [][CmdNext]_vars

(***************************************************************************)
(* Run with an escape sequence split over two reads: a read returns the    *)
(* escape byte alone or behind a letter, the rest of the sequence of the   *)
(* up key, or the quit key, and never the whole sequence.                  *)
(***************************************************************************)
SplitChunks ==
    { <<ESC>>,
      <<Ord("a"), ESC>>,
      <<Ord("["), Ord("A")>>,
      <<3>> }

SplitNext ==
    \/ MainStep
    \/ WatcherStep
    \/ ReaderStep
    \/ \E chunk \in SplitChunks : R_Read(chunk)
    \/ R_ReadErr
    \/ \E sz \in Sizes :
          /\ nSignals < MaxBurstSignals
          /\ E_Resize(sz)

SplitSpec == BurstInit /\ [][SplitNext]_vars

(***************************************************************************)
(* Batch called on its own: it returns a command, and that command is run. *)
(* A command is told from another by its place among the arguments.        *)
(***************************************************************************)
\* how many commands Batch is given at most
MaxBatch == 4

tickMsg == [type |-> "tickMsg"]

\* the commands given: the nil command, Quit, a command that yields the nil
\* message and one that yields another message
BatchCmds == {Nil, Quit, Cmd(Nil), Cmd(tickMsg)}

RECURSIVE BatchLoop(_, _, _, _)
\* the loop of the command Batch returns, from the i-th command on, with
\* the message msg held and the commands at the places in run executed:
\* <<message returned, places of the commands executed, in order>>
BatchLoop(cmds, i, msg, run) ==
    IF i > Len(cmds) THEN <<msg, run>>
    ELSE IF cmds[i] = Nil THEN BatchLoop(cmds, i + 1, msg, run)
    ELSE BatchLoop(cmds, i + 1, cmds[i].yields, Append(run, i))

\* Batch(cmds...) is called and returns its command; no command has run
B_Batch ==
    /\ pcF = "idle"
    /\ pcF' = "Batch"
    /\ \E n \in 0..MaxBatch : fArgs' \in [1..n -> BatchCmds]
    /\ fOut' = <<>>
    /\ nCalls' = nCalls + 1
    /\ UNCHANGED <<optVars, runVars, scanVars>>

\* the command Batch returned is executed
B_Run ==
    /\ pcF = "Batch"
    /\ pcF' = "cmd()"
    /\ fOut' = BatchLoop(fArgs, 1, Nil, <<>>)
    /\ UNCHANGED <<fArgs, nCalls, optVars, runVars, scanVars>>

BatchNext ==
    \/ B_Batch
    \/ B_Run

BatchSpec == LayoutInit /\ [][BatchNext]_vars

(***************************************************************************)
(* Run from the initial size on, over any model: Init and Update return    *)
(* any of the commands of BatchCmds.  The model's state is the number of   *)
(* Update calls it has answered, its view a frame of that number; the      *)
(* producers are one step that puts an event into the channel.             *)
(***************************************************************************)
\* how many events the producers send
MaxGenEvents == 2

GenEvents == {KeyMsg("a"), WindowSizeMsg(100, 30)}

\* the record of a call of Init or Update, with the command it returned
Returning(call, cmd) ==
    [g |-> call.g, site |-> call.site, f |-> call.f, arg |-> call.arg,
     cmd |-> cmd]

\* the record of the execution cmd() of a command
Exec(site, cmd) == Call("main", site, "cmd()", cmd)

GenView(mdl) == [kind |-> "frame", updates |-> mdl]

GenInit ==
    /\ isTTY = TRUE
    /\ altScreen = FALSE
    /\ mouseEnabled = FALSE
    /\ pcMain = "size"
    /\ m = 0
    /\ defers = <<>>
    /\ ret = Nil
    /\ out = <<>>
    /\ termState = "raw"
    /\ termSize = <<80, 24>>
    /\ msgCh = <<>>
    /\ done = "none"
    /\ pcW = "idle"
    /\ sigCh = 0
    /\ notified = FALSE
    /\ wMsg = Nil
    /\ pcR = "idle"
    /\ rMsgs = <<>>
    /\ readFailed = FALSE
    /\ nReads = 0
    /\ nSignals = 0
    /\ calls = <<>>
    /\ ran = <<>>
    /\ inputLog = <<>>
    /\ resizeLog = <<>>
    /\ ScanIdle
    /\ CallIdle

genFrame ==
    <<optVars, scanVars, callVars, defers, termState, termSize, done, pcW,
      sigCh, notified, wMsg, resizeLog, pcR, rMsgs, readFailed, nSignals,
      ran>>

\* m, _ = m.Update(WindowSizeMsg{...}): the command returned is dropped
G_InitialSize ==
    /\ pcMain = "size"
    /\ \E cmd \in BatchCmds :
         calls' = Append(calls,
                         Returning(Call("main", "size", "Update",
                                        WindowSizeMsg(termSize[1],
                                                      termSize[2])), cmd))
    /\ m' = m + 1
    /\ pcMain' = "init"
    /\ UNCHANGED <<genFrame, ret, out, msgCh, nReads, inputLog>>

\* if cmd := m.Init(); cmd != nil { if msg := cmd(); msg != nil
\* { m, _ = m.Update(msg) } }; then the loop is entered and the first frame
\* printed
G_Init ==
    /\ pcMain = "init"
    /\ \E icmd \in BatchCmds, ucmd \in BatchCmds :
         LET runs == icmd # Nil
             updates == runs /\ icmd.yields # Nil
             m1 == IF updates THEN m + 1 ELSE m
         IN /\ ~updates => ucmd = Nil
            /\ m' = m1
            /\ calls' =
                 calls
                 \o <<Returning(Call("main", "init", "Init", Nil), icmd)>>
                 \o (IF runs THEN <<Exec("init", icmd)>> ELSE <<>>)
                 \o (IF updates
                     THEN <<Returning(Call("main", "init", "Update",
                                           icmd.yields), ucmd)>>
                     ELSE <<>>)
                 \o <<Call("main", "loop", "View", Nil)>>
            /\ out' = out \o <<Text(ClearHome), GenView(m1)>>
    /\ pcMain' = "recv"
    /\ UNCHANGED <<genFrame, ret, msgCh, nReads, inputLog>>

\* a variant that sends the message of a command back into the channel
G_Loop_feedsBack ==
    /\ pcMain = "recv"
    /\ msgCh # <<>>
    /\ m' = m + 1
    /\ \E cmd \in BatchCmds :
         LET update == Returning(Call("main", "loop", "Update", Head(msgCh)),
                                 cmd)
         IN IF cmd # Nil /\ cmd.yields = quitMsg
            THEN /\ Return(m + 1, Nil)
                 /\ calls' = calls \o <<update, Exec("loop", cmd)>>
                 /\ out' = out
                 /\ msgCh' = Tail(msgCh)
            ELSE /\ pcMain' = "recv"
                 /\ ret' = ret
                 /\ calls' = calls \o <<update>>
                              \o (IF cmd # Nil THEN <<Exec("loop", cmd)>>
                                  ELSE <<>>)
                              \o <<Call("main", "loop", "View", Nil)>>
                 /\ out' = out \o <<Text(ClearHome), GenView(m + 1)>>
                 /\ msgCh' = IF cmd # Nil /\ cmd.yields # Nil
                             THEN Append(Tail(msgCh), cmd.yields)
                             ELSE Tail(msgCh)
    /\ UNCHANGED <<genFrame, nReads, inputLog>>

\* one turn of the main loop: msg := <-msgCh; m, cmd = m.Update(msg);
\* if cmd != nil { if _, ok := cmd().(quitMsg); ok { return m, nil } };
\* then the next frame is printed
G_Loop ==
    /\ pcMain = "recv"
    /\ msgCh # <<>>
    /\ msgCh' = Tail(msgCh)
    /\ m' = m + 1
    /\ \E cmd \in BatchCmds :
         LET update == Returning(Call("main", "loop", "Update", Head(msgCh)),
                                 cmd)
         IN IF cmd # Nil /\ cmd.yields = quitMsg
            THEN /\ Return(m + 1, Nil)
                 /\ calls' = calls \o <<update, Exec("loop", cmd)>>
                 /\ out' = out
            ELSE /\ pcMain' = "recv"
                 /\ ret' = ret
                 /\ calls' = calls \o <<update>>
                              \o (IF cmd # Nil THEN <<Exec("loop", cmd)>>
                                  ELSE <<>>)
                              \o <<Call("main", "loop", "View", Nil)>>
                 /\ out' = out \o <<Text(ClearHome), GenView(m + 1)>>
    /\ UNCHANGED <<genFrame, nReads, inputLog>>

\* a producer sends an event
G_Produce ==
    /\ nReads < MaxGenEvents
    /\ ChanHasRoom(msgCh)
    /\ \E e \in GenEvents :
         /\ msgCh' = ChanSend(msgCh, e)
         /\ inputLog' = Append(inputLog, e)
    /\ nReads' = nReads + 1
    /\ UNCHANGED <<genFrame, pcMain, m, ret, out, calls>>

GenNext ==
    \/ G_InitialSize
    \/ G_Init
    \/ G_Loop
    \/ G_Produce
    \/ M_Teardown

GenSpec == GenInit /\ [][GenNext]_vars

(***************************************************************************)
(* The session list under keys, clicks, resizes and commands, while        *)
(* sessions are created and killed: the model starts as Run's first Update *)
(* leaves it, with the size of the window.                                 *)
(***************************************************************************)
\* how many events are followed
MaxSelCalls == 3

SelKeys == {"down", "up", "enter", "ctrl+o", "alt+right"}

\* clicks on the first and second session row of the sidebar, on the tab
\* bar and on the input line
SelClicks == {<<0, 2>>, <<0, 3>>, <<60, 1>>, <<0, 22>>}

SelLines == {"/closeall", "/new ls", "/list"}

SelInit ==
    /\ UIInit
    /\ m.width = 0

S_Size ==
    /\ nCalls = 0
    /\ U_Update(WindowSizeMsg(80, 24))

S_Event(msg) ==
    /\ nCalls > 0
    /\ nCalls <= MaxSelCalls
    /\ pcF' = "Update"
    /\ fArgs' = <<m, msg>>
    /\ fOut' = Update(m, msg)
    /\ m' = fOut'[1]
    /\ nCalls' = nCalls + 1
    /\ UNCHANGED uiFrame

S_Key == \E key \in SelKeys : S_Event(KeyMsg(key))

S_Mouse ==
    \E c \in SelClicks : S_Event(MouseMsg(GoInt(c[1]), GoInt(c[2]), MouseLeft))

S_Resize == \E w \in {80, 120} : S_Event(WindowSizeMsg(w, 24))

\* a line is typed and entered: Update on the enter key with the line in
\* the input
S_Submit ==
    \E input \in SelLines :
        /\ m.focus = focusInput
        /\ nCalls > 0
        /\ nCalls <= MaxSelCalls
        /\ pcF' = "Update"
        /\ fArgs' = <<[m EXCEPT !.input.ValueStr = input], KeyMsg("enter")>>
        /\ fOut' = Update(fArgs'[1], fArgs'[2])
        /\ m' = fOut'[1]
        /\ nCalls' = nCalls + 1
        /\ UNCHANGED uiFrame

\* a session ends outside the program: its shell exits or it is killed
S_Kill ==
    /\ nCalls > 0
    /\ nCalls <= MaxSelCalls
    /\ \E name \in Names(m.manager.sessions) :
         /\ pcF' = "Kill"
         /\ fArgs' = <<m.manager, name>>
         /\ fOut' = Kill(m.manager, name)
    /\ m' = [m EXCEPT !.manager = fOut'[1]]
    /\ nCalls' = nCalls + 1
    /\ UNCHANGED uiFrame

SelNext ==
    \/ S_Size
    \/ S_Key
    \/ S_Mouse
    \/ S_Resize
    \/ S_Submit
    \/ S_Kill

SelSpec == SelInit /\ [][SelNext]_vars

(***************************************************************************)
(* Properties of Program.Run.                                              *)
(***************************************************************************)
\* the events the main loop took from the channel, in order
RECURSIVE LoopArgs(_)
LoopArgs(cs) ==
    IF cs = <<>> THEN <<>>
    ELSE (IF Head(cs).f = "Update" /\ Head(cs).site = "loop"
          THEN <<Head(cs).arg>> ELSE <<>>)
         \o LoopArgs(Tail(cs))

IsInputEvent(e) == e.type \in {"KeyMsg", "MouseMsg"}
IsResizeEvent(e) == e.type = "WindowSizeMsg"

DeliveredInput == SelectSeq(LoopArgs(calls), IsInputEvent)
DeliveredResize == SelectSeq(LoopArgs(calls), IsResizeEvent)

IsPrefix(a, b) == Len(a) <= Len(b) /\ SubSeq(b, 1, Len(a)) = a

\* how often x occurs in the sequence q
Count(q, x) == Cardinality({i \in 1..Len(q) : q[i] = x})

\* the printed texts, frames left out
IsText(o) == o.kind = "text"
OutTexts == SelectSeq(out, IsText)

Printed1(t) == Count(out, Text(t))

Returned == pcMain = "returned"

\* the error a failed stdin read would hand to the caller of Run
ReadError == Err("stdin read failed")

\* every teardown action whose enable step ran has run exactly once, and no
\* other has run
TeardownOnce ==
    /\ Printed1(CursorShow) = Printed1(CursorHide)
    /\ Printed1(AltScreenExit) = Printed1(AltScreenEnter)
    /\ Printed1("ESC[?1000l") = Printed1("ESC[?1000h")
    /\ Printed1("ESC[?1006l") = Printed1("ESC[?1006h")
    /\ Printed1(CursorHide) <= 1
    /\ Printed1(AltScreenEnter) <= 1
    /\ Printed1("ESC[?1000h") <= 1
    /\ Printed1("ESC[?1006h") <= 1
    /\ Count(ran, DeferRestore) = (IF isTTY THEN 1 ELSE 0)
    /\ termState = "cooked"

\* C1: in each exit scenario of Run (a quit event, a failed stdin read, a
\* failed raw-mode acquisition) every teardown action whose enable step ran
\* is executed exactly once, and Run ends.
C1_ExitScenariosTearDownOnce ==
    /\ [](Returned => TeardownOnce)
    /\ (~isTTY ~> Returned)
    /\ (ret # Nil ~> Returned)
    /\ (readFailed ~> Returned)

\* C2: when the stdin read of the reader goroutine fails, the reader
\* terminates and Run eventually returns with that read failure as its error.
C2_ReadFailureReturned ==
    readFailed ~> (pcR = "exit" /\ Returned /\ ret.err = ReadError)

\* C3: once the teardown signal done is closed, both producer goroutines
\* eventually terminate, whatever blocking point each was at.
C3_ProducersTerminate ==
    (done = "closed") ~> (pcW = "exit" /\ pcR = "exit")

\* the teardown of a run that started: cursor show, mouse 1006l then 1000l,
\* alt-screen exit, and the terminal state restored last
ExpectedTeardown ==
    <<DeferPrint(CursorShow)>>
    \o (IF mouseEnabled
        THEN <<DeferPrint("ESC[?1006l"), DeferPrint("ESC[?1000l")>>
        ELSE <<>>)
    \o (IF altScreen THEN <<DeferPrint(AltScreenExit)>> ELSE <<>>)
    \o <<DeferRestore>>

ExpectedSetup ==
    (IF altScreen THEN <<AltScreenEnter>> ELSE <<>>)
    \o (IF mouseEnabled THEN <<"ESC[?1000h", "ESC[?1006h">> ELSE <<>>)
    \o <<CursorHide>>

IsModeAction(d) == d # DeferCloseDone

TextOf(i) == OutTexts[i].s

\* C4: on exit from Run after a successful start, the teardown actions run
\* in the reverse of their acquisition order (raw mode, alt-screen, mouse
\* 1000h then 1006h, cursor hide): cursor show, 1006l, 1000l, 1049l, and the
\* saved terminal state is restored last.
C4_TeardownReverseOrder ==
    (Returned /\ ret.err = Nil) =>
        /\ SelectSeq(ran, IsModeAction) = ExpectedTeardown
        /\ termState = "cooked"
        /\ Len(OutTexts) >= Len(ExpectedSetup) + Len(ExpectedTeardown) - 1
        /\ \A i \in 1..Len(ExpectedSetup) : TextOf(i) = ExpectedSetup[i]
        /\ \A i \in 1..(Len(ExpectedTeardown) - 1) :
              TextOf(Len(OutTexts) - (Len(ExpectedTeardown) - 1) + i)
                  = ExpectedTeardown[i].s

C4_Witness ==
    Returned /\ ret.err = Nil /\ altScreen /\ mouseEnabled

\* C5: if raw-mode acquisition fails, Run returns at once with a non-nil
\* error and the unmodified initial model; nothing was printed, no producer
\* was started and Init, Update and View were never called.
C5_RawModeFailure ==
    ~isTTY =>
        /\ pcMain \in {"makeraw", "teardown", "returned"}
        /\ pcMain # "makeraw" => ret = [model |-> NewModel, err |-> RawModeError]
        /\ out = <<>>
        /\ calls = <<>>
        /\ pcW = "idle" /\ pcR = "idle" /\ done = "none"
        /\ termState = "cooked"
        /\ ran = <<>>

C5_Witness ==
    Returned /\ ~isTTY /\ ret.err = RawModeError

\* a disable text is printed only after its enable text, and only with the
\* option on
DisableFollowsEnable(on, en, dis) ==
    /\ \A j \in 1..Len(out) :
          out[j] = Text(dis) => \E i \in 1..(j - 1) : out[i] = Text(en)
    /\ ~on => Printed1(en) = 0 /\ Printed1(dis) = 0

\* C6: for every combination of altScreen and mouseCellMotion, a disable
\* sequence (1049l, 1000l, 1006l) is printed only if its enable sequence was
\* printed earlier in the same run; with an option off neither its enable nor
\* its disable sequence is ever printed.
C6_DisableOnlyAfterEnable ==
    /\ DisableFollowsEnable(altScreen, AltScreenEnter, AltScreenExit)
    /\ DisableFollowsEnable(mouseEnabled, "ESC[?1000h", "ESC[?1000l")
    /\ DisableFollowsEnable(mouseEnabled, "ESC[?1006h", "ESC[?1006l")

C6_Witness ==
    /\ Returned /\ isTTY
    /\ ~altScreen /\ mouseEnabled
    /\ Printed1("ESC[?1000l") = 1 /\ Printed1("ESC[?1006l") = 1
    /\ Printed1(AltScreenExit) = 0

\* C7: the first event Update receives is the resize event with the initial
\* terminal dimensions, given to it directly by Run before Init is invoked
\* and before any event of a producer, also when a producer has already put
\* events on the channel.
C7_InitialSizeFirst ==
    /\ calls # <<>> =>
          /\ calls[1].f = "Update" /\ calls[1].site = "size"
          /\ calls[1].g = "main"
          /\ IsResizeEvent(calls[1].arg)
          /\ <<calls[1].arg.Width, calls[1].arg.Height>> \in Sizes
    /\ \A i \in 2..Len(calls) : calls[i].site # "size"
    /\ pcMain \in {"makeraw", "altscreen", "mouse", "cursor", "spawn", "size"}
          => calls = <<>>

C7_Witness ==
    /\ pcMain = "init"
    /\ Len(calls) = 1
    /\ \E i \in 1..Len(msgCh) : IsInputEvent(msgCh[i])
    /\ \E i \in 1..Len(msgCh) : IsResizeEvent(msgCh[i])

\* whether Update answers the event with the quit action
YieldsQuit(e) == Update(NewModel, e)[2] = Quit

\* C8: in the main loop, when Update returns an action that yields the quit
\* sentinel, Run returns (that Update's model, nil) and goes to teardown: no
\* further event is created and no further Update or View call is made.
C8_QuitEndsLoop ==
    \A i \in 1..Len(calls) :
        (calls[i].site = "loop" /\ calls[i].f = "Update"
         /\ YieldsQuit(calls[i].arg)) =>
            /\ i = Len(calls)
            /\ pcMain \in {"teardown", "returned"}
            /\ ret = [model |-> m, err |-> Nil]

C8_Witness ==
    /\ Returned /\ ret.err = Nil
    /\ msgCh # <<>>
    /\ Len(LoopArgs(calls)) >= 2

\* C9: Init, Update and View are invoked only by the goroutine executing
\* Run, never by a producer, so that no two calls overlap: each call of that
\* goroutine ends before its next one begins.
C9_OnlyConsumerCallsModel ==
    \A i \in 1..Len(calls) : calls[i].g = "main"

C9_Witness ==
    /\ Len(LoopArgs(calls)) >= 2
    /\ pcR = "send" /\ pcW = "send"
    /\ pcMain = "recv"

\* C10: events of the same producer reach Update in the order the producer
\* made them: input events in the order of the bytes read, across and within
\* chunks, and resize events in signal order, under every interleaving.
C10_PerProducerOrder ==
    /\ IsPrefix(DeliveredInput, inputLog)
    /\ IsPrefix(DeliveredResize, resizeLog)

C10_Witness ==
    /\ Len(DeliveredInput) >= 3
    /\ Len(DeliveredResize) = 2
    /\ DeliveredResize[1] # DeliveredResize[2]
    /\ DeliveredInput[1] # DeliveredInput[2]
    /\ \E i \in 2..(Len(LoopArgs(calls)) - 1) :
          /\ IsResizeEvent(LoopArgs(calls)[i])
          /\ IsInputEvent(LoopArgs(calls)[i - 1])
          /\ IsInputEvent(LoopArgs(calls)[i + 1])

(***************************************************************************)
(* Properties of the decoder, on the chunks of ScanChunks.                 *)
(***************************************************************************)
ScanReturned == pcP = "returned"

\* C13: for every byte b in 0x20..0x7e, parseInput on the chunk [b] yields
\* exactly one event, the key event whose code is the character b.
C13_PrintableBytes ==
    \A b \in 32..126 :
        (ScanReturned /\ pBuf = <<b>>)
            => pMsgs = <<KeyMsg(PrintableChars[b - 31])>>

C13_Witness ==
    /\ ScanReturned
    /\ pBuf = <<126>>
    /\ pMsgs = <<KeyMsg("~")>>

\* the named control key the fixed table gives a control byte
ControlName(c) ==
    CASE c = 9 -> "tab"
      [] c = 10 \/ c = 13 -> "enter"
      [] c = 127 -> "backspace"
      [] OTHER -> "ctrl+" \o PrintableChars[c + 96 - 31]

\* C14: for every control byte c in 0x01..0x0f and for 0x7f, parseInput on
\* the chunk [c] yields exactly one key event, the named control key of the
\* table (tab, enter, backspace, ctrl+letter): no such byte is discarded.
C14_ControlBytes ==
    \A c \in (1..15) \cup {127} :
        (ScanReturned /\ pBuf = <<c>>) => pMsgs = <<KeyMsg(ControlName(c))>>

\* the malformed and unrecognized sequences: ESC[1~, ESC[15~, ESC[1;5Q and
\* the truncated mouse report ESC[<0;1
MalformedChunks ==
    {<<ESC, Ord("["), Ord("1"), Ord("~")>>,
     <<ESC, Ord("["), Ord("1"), Ord("5"), Ord("~")>>,
     <<ESC, Ord("["), Ord("1"), Ord(";"), Ord("5"), Ord("Q")>>,
     <<ESC, Ord("["), Ord("<"), Ord("0"), Ord(";"), Ord("1")>>}

\* C15: parseInput on a chunk that is exactly one malformed or unrecognized
\* escape sequence yields exactly one event, the key event "unknown"; the
\* bytes of the sequence are not emitted as printable-character keys too.
C15_MalformedIsOneUnknown ==
    (ScanReturned /\ pBuf \in MalformedChunks)
        => pMsgs = <<KeyMsg("unknown")>>

\* C16: parseInput terminates on every chunk: each loop iteration advances
\* the scan position by at least one byte and never past the end of the
\* chunk, so the bytes are consumed once each from left to right, at most
\* one event is emitted per iteration and so at most one per byte, and the
\* loop ends with the position at the end of the chunk, its result being
\* the decoding of the chunk.
C16_ScanTerminates ==
    /\ [][pcP = "loop"
            => /\ pI' > pI
               /\ pI' <= Len(pBuf) + 1
               /\ Len(pMsgs') <= Len(pMsgs) + 1
               /\ SubSeq(pMsgs', 1, Len(pMsgs)) = pMsgs]_<<pI, pMsgs>>
    /\ [](Len(pMsgs) <= pI - 1 /\ pI <= Len(pBuf) + 1)
    /\ [](ScanReturned
            => pI = Len(pBuf) + 1 /\ Len(pMsgs) <= Len(pBuf)
               /\ pMsgs = parseInput(pBuf))
    /\ (pcP = "loop") ~> ScanReturned

C16_Witness ==
    /\ ScanReturned
    /\ pBuf = <<Ord("A"), ESC, Ord("[")>>
    /\ pMsgs = <<KeyMsg("A"), KeyMsg("esc"), KeyMsg("[")>>

\* the prefix a modifier digit 2..8 stands for, and the name of a final byte
ModifierPrefix(d) ==
    <<"shift+", "alt+", "shift+alt+", "ctrl+", "shift+ctrl+", "alt+ctrl+",
      "shift+alt+ctrl+">>[d - 1]

FinalName(f) ==
    CASE f = "A" -> "up" [] f = "B" -> "down" [] f = "C" -> "right"
      [] f = "D" -> "left" [] f = "H" -> "home" [] f = "F" -> "end"
      [] f = "Z" -> "shift+tab"

ModifiedSeq(d, f) == <<ESC, Ord("["), Ord("1"), Ord(";"), Ord("0") + d, Ord(f)>>

\* C17: for every modifier digit d in 2..8 and final byte f in
\* {A,B,C,D,H,F}, parseInput on ESC [ 1 ; d f yields exactly one key event,
\* coded prefix(d) + name(f); ESC[1;5A yields "ctrl+up".
C17_ModifiedKeys ==
    \A d \in 2..8 : \A f \in {"A", "B", "C", "D", "H", "F"} :
        (ScanReturned /\ pBuf = ModifiedSeq(d, f))
            => pMsgs = <<KeyMsg(ModifierPrefix(d) \o FinalName(f))>>

C17_Witness ==
    /\ ScanReturned
    /\ pBuf = ModifiedSeq(5, "A")
    /\ pMsgs = <<KeyMsg("ctrl+up")>>

\* C18: the modified-key grammar has Z in its final-byte table: for every
\* modifier digit d in 2..8, parseInput on ESC [ 1 ; d Z yields exactly one
\* key event, coded prefix(d) + "shift+tab".
C18_ModifiedShiftTab ==
    \A d \in 2..8 :
        (ScanReturned /\ pBuf = ModifiedSeq(d, "Z"))
            => pMsgs = <<KeyMsg(ModifierPrefix(d) \o FinalName("Z"))>>

\* The natural number a string of decimal digits denotes, as base-2^16
\* limbs, least significant first, as many as the number needs.
RECURSIVE NatMulAdd10(_, _)
NatMulAdd10(n, c) ==
    IF n = <<>> THEN (IF c = 0 THEN <<>> ELSE <<c>>)
    ELSE <<(n[1] * 10 + c) % Limb>>
         \o NatMulAdd10(Tail(n), (n[1] * 10 + c) \div Limb)

RECURSIVE NatOf(_)
NatOf(ds) ==
    IF ds = <<>> THEN <<>>
    ELSE NatMulAdd10(NatOf(SubSeq(ds, 1, Len(ds) - 1)),
                     ds[Len(ds)] - Ord("0"))

\* the number without its most significant limbs that are zero
RECURSIVE NatNorm(_)
NatNorm(n) ==
    IF n # <<>> /\ n[Len(n)] = 0 THEN NatNorm(SubSeq(n, 1, Len(n) - 1))
    ELSE n

\* n - 1 for n > 0
RECURSIVE NatPredRaw(_)
NatPredRaw(n) ==
    IF n[1] > 0 THEN <<n[1] - 1>> \o Tail(n)
    ELSE <<Limb - 1>> \o NatPredRaw(Tail(n))

NatPred(n) == NatNorm(NatPredRaw(n))

\* whether the Go int x is the natural number n
IntIsNat(x, n) == x[4] < Limb \div 2 /\ NatNorm(x) = n

\* C19: for all decimal Cb, Cx >= 1, Cy >= 1 and terminator M or m,
\* parseInput on ESC [ < Cb ; Cx ; Cy terminator yields exactly one mouse
\* event, with X = Cx - 1 and Y = Cy - 1, the whole sequence being consumed.
C19_MouseCoordinates ==
    (ScanReturned /\ pBuf \in MouseChunks) =>
      \A cb \in {0, 35, 64} : \A cxD \in CoordDigits : \A cyD \in RowDigits :
        \A t \in {Ord("M"), Ord("m")} :
          pBuf = MouseReport(Dec(cb), cxD, cyD, t)
            => /\ Len(pMsgs) = 1
               /\ pMsgs[1].type = "MouseMsg"
               /\ IntIsNat(pMsgs[1].X, NatPred(NatOf(cxD)))
               /\ IntIsNat(pMsgs[1].Y, NatPred(NatOf(cyD)))

\* bit k of a number
Bit(n, k) == (n \div (2 ^ k)) % 2

\* the kind the rule of C20 gives a button code and a terminator
KindOf(cb, t) ==
    IF t = "m" THEN MouseRelease
    ELSE IF Bit(cb, 6) = 1
    THEN (IF Bit(cb, 0) = 0 THEN MouseWheelUp ELSE MouseWheelDown)
    ELSE IF Bit(cb, 5) = 1 THEN MouseMotion
    ELSE <<MouseLeft, MouseMiddle, MouseRight, MouseRelease>>[(cb % 4) + 1]

\* C20: the kind of a decoded SGR mouse event is Release for terminator m;
\* for terminator M it is WheelUp or WheelDown (bit 0 clear or set) when bit
\* 6 of Cb is set, else Motion when bit 5 is set, else Left, Middle, Right,
\* Release for bits 0-1 = 0, 1, 2, 3.
C20_MouseKind ==
    (ScanReturned /\ Len(pBuf) > 6 /\ pBuf[3] = Ord("<")) =>
      \A cb \in 0..MaxCb : \A t \in {"M", "m"} :
        pBuf = MouseReport(Dec(cb), Dec(1), Dec(1), Ord(t))
            => /\ Len(pMsgs) = 1
               /\ pMsgs[1].type = "MouseMsg"
               /\ pMsgs[1].Type = KindOf(cb, t)

C20_Witness ==
    /\ ScanReturned
    /\ pBuf = MouseReport(Dec(35), Dec(1), Dec(1), Ord("M"))
    /\ pMsgs = <<MouseMsg(GoInt(0), GoInt(0), MouseMotion)>>

\* C21: for every byte c other than '[' and 'O', an ESC byte immediately
\* followed by c in the same chunk is decoded as exactly one key event coded
\* "alt+" followed by c, consuming exactly those two bytes; decoding then
\* continues with the byte after c.
C21_AltKey ==
    /\ [][(/\ pcP = "loop" /\ pI < Len(pBuf) /\ pBuf[pI] = ESC
           /\ pBuf[pI + 1] \notin {Ord("["), Ord("O")})
          => /\ pMsgs' = Append(pMsgs, KeyMsg("alt+" \o Chr(pBuf[pI + 1])))
             /\ pI' = pI + 2
             /\ pBuf' = pBuf]_vars
    /\ [](\A c \in (0..255) \ {Ord("["), Ord("O")} :
            /\ (ScanReturned /\ pBuf = <<ESC, c>>)
                 => pMsgs = <<KeyMsg("alt+" \o Chr(c))>>
            /\ (ScanReturned /\ pBuf = <<ESC, c, Ord("x")>>)
                 => pMsgs = <<KeyMsg("alt+" \o Chr(c)), KeyMsg("x")>>)

C21_Witness ==
    /\ ScanReturned
    /\ pBuf = <<ESC, Ord("h"), Ord("x")>>
    /\ pMsgs = <<KeyMsg("alt+h"), KeyMsg("x")>>

(***************************************************************************)
(* Properties of the layout functions.                                     *)
(***************************************************************************)
RenderCalled == pcF = "Render"
JoinCalled == pcF = "JoinHorizontal"

\* a frame of h lines, each of visible width w; no line at all is the
\* empty text
IsFrame(text, w, h) ==
    IF h = 0 THEN text = <<>>
    ELSE /\ Len(Split(text)) = h
         /\ \A k \in 1..h : visibleWidth(Split(text)[k]) = w

\* C22: Style.Render with fixed width W and fixed height H (no border, no
\* margin) returns, for any content and any W, H >= 0, a frame of exactly H
\* lines, each of visible width exactly W, escape sequences not counted:
\* also for W = 0, H = 0, content lines longer than W and content that
\* contains escape sequences.
C22_FixedFrame ==
    (RenderCalled /\ ~fArgs[1].border /\ fArgs[1].marginTop = 0)
        => IsFrame(fOut, fArgs[1].width, fArgs[1].height)

\* a line with spaces added on the right up to the width w
PadTo(line, w) ==
    line \o [k \in 1..(IF w > Len(line) THEN w - Len(line) ELSE 0) |-> SP]

\* the length of the longest of some lines
Longest(ls) ==
    IF Len(ls) = 0 THEN 0
    ELSE CHOOSE n \in {Len(ls[k]) : k \in 1..Len(ls)} :
            \A k \in 1..Len(ls) : Len(ls[k]) <= n

\* the rows of a rendered text that stand for content lines
ContentRows(text, content) ==
    IF Len(Split(text)) < Len(Split(content)) THEN Len(Split(text))
    ELSE Len(Split(content))

\* the row of a rendered text without the escape codes of the style
Unstyled(s, row) ==
    SubSeq(row, Len(AnsiStart(s)) + 1, Len(row) - Len(AnsiEnd(s)))

\* C23 as stated: Style.Render pads every content line on the right with
\* spaces to the width max(block.width, length of the longest content
\* line); no content character is removed from any line, also when
\* block.width is smaller than the longest line.
C23_PadsNeverCuts ==
    (RenderCalled /\ ~fArgs[1].border)
        => \A k \in 1..ContentRows(fOut, fArgs[2]) :
              LET w == IF fArgs[1].width > Longest(Split(fArgs[2]))
                       THEN fArgs[1].width ELSE Longest(Split(fArgs[2]))
              IN Unstyled(fArgs[1], Split(fOut)[k])
                    = PadTo(Split(fArgs[2])[k], w)

\* C23, amended: Style.Render pads every content line on the right with
\* spaces to the width block.width when a width is set, a line longer than
\* block.width being cut to its first block.width bytes, and to the length
\* of the longest content line when no width is set.
C23_PadsOrCuts ==
    (RenderCalled /\ ~fArgs[1].border)
        => \A k \in 1..ContentRows(fOut, fArgs[2]) :
              LET w == fArgs[1].width
                  line == Split(fArgs[2])[k]
              IN Unstyled(fArgs[1], Split(fOut)[k])
                    = IF w = 0 THEN PadTo(line, Longest(Split(fArgs[2])))
                      ELSE IF Len(line) > w THEN SubSeq(line, 1, w)
                      ELSE PadTo(line, w)

C23_Witness ==
    /\ RenderCalled
    /\ fArgs = <<[NewStyle EXCEPT !.width = 1], <<Ord("a"), Ord("a")>>>>
    /\ fOut = <<Ord("a")>>

\* C24 as stated: JoinHorizontal("AB", "C") returns the single row "AB"
\* followed by "C ": the second block is padded with a trailing space to
\* width 2.
C24_JoinPadsLast ==
    (JoinCalled /\ fArgs = <<<<Ord("A"), Ord("B")>>, <<Ord("C")>>>>)
        => fOut = <<Ord("A"), Ord("B"), Ord("C"), SP>>

\* C24, amended: JoinHorizontal("AB", "C") returns the single row "ABC":
\* the last part is not padded, and two parts of one line each give the
\* first followed by the second.
C24_JoinLastUnpadded ==
    /\ (JoinCalled /\ fArgs = <<<<Ord("A"), Ord("B")>>, <<Ord("C")>>>>)
          => fOut = <<Ord("A"), Ord("B"), Ord("C")>>
    /\ (JoinCalled /\ Len(fArgs) = 2 /\ Len(Split(fArgs[1])) = 1
        /\ Len(Split(fArgs[2])) = 1)
          => fOut = fArgs[1] \o fArgs[2]

C24_Witness ==
    /\ JoinCalled
    /\ fArgs = <<<<Ord("A"), Ord("B")>>, <<Ord("C")>>>>
    /\ fOut = <<Ord("A"), Ord("B"), Ord("C")>>

\* the visible width of a part: that of its widest line
PartWidth(part) ==
    CHOOSE n \in {visibleWidth(Split(part)[k]) : k \in 1..Len(Split(part))} :
        \A k \in 1..Len(Split(part)) : visibleWidth(Split(part)[k]) <= n

RECURSIVE WidthBefore(_, _)
WidthBefore(parts, i) ==
    IF i <= 1 THEN 0 ELSE WidthBefore(parts, i - 1) + PartWidth(parts[i - 1])

\* the most lines any part has
MostLines(parts) ==
    CHOOSE n \in {Len(Split(parts[i])) : i \in 1..Len(parts)} :
        \A i \in 1..Len(parts) : Len(Split(parts[i])) <= n

\* the line is in the row, after a prefix of visible width col
StartsAt(row, line, col) ==
    \E p \in 0..(Len(row) - Len(line)) :
        /\ SubSeq(row, p + 1, p + Len(line)) = line
        /\ visibleWidth(SubSeq(row, 1, p)) = col

\* every part's lines are in their rows at the part's column
Aligned(parts, text) ==
    /\ Len(Split(text)) = MostLines(parts)
    /\ \A i \in 1..Len(parts) :
          \A r \in 1..Len(Split(parts[i])) :
              StartsAt(Split(text)[r], Split(parts[i])[r],
                       WidthBefore(parts, i))

\* C25 as stated: in the output of JoinHorizontal, for every part i and
\* every output row, the text of part i starts at the column equal to the
\* sum of the visible widths (longest line) of parts 0..i-1, also on rows
\* where an earlier part has no line or a shorter line; the output has as
\* many rows as the part with the most lines.
C25_ColumnsAligned == JoinCalled => Aligned(fArgs, fOut)

\* an escape sequence begun in the text is not ended in it
EscapeOpen(line) ==
    \E k \in 1..Len(line) :
        /\ line[k] = ESC
        /\ \A j \in (k + 1)..Len(line) : line[j] # Ord("m")

\* every byte of the text is part of a well-formed rune
RECURSIVE WellFormedFrom(_, _)
WellFormedFrom(line, i) ==
    IF i > Len(line) THEN TRUE
    ELSE /\ (line[i] >= 128 => RuneLen(line, i) > 1)
         /\ WellFormedFrom(line, i + RuneLen(line, i))

CleanPart(part) ==
    \A k \in 1..Len(Split(part)) :
        ~EscapeOpen(Split(part)[k]) /\ WellFormedFrom(Split(part)[k], 1)

\* C25, amended: for parts whose lines are well-formed UTF-8 in which
\* every escape sequence is ended on its line, the text of part i starts,
\* on every output row part i has a line for, at the column equal to the
\* sum of the visible widths of parts 0..i-1, also where an earlier part
\* has no line or a shorter line; the output has as many rows as the part
\* with the most lines.
C25_CleanColumnsAligned ==
    (JoinCalled /\ \A i \in 1..Len(fArgs) : CleanPart(fArgs[i]))
        => Aligned(fArgs, fOut)

C25_Witness ==
    /\ JoinCalled
    /\ fArgs = <<<<Ord("A")>>, <<Ord("A"), NL, Ord("A")>>>>
    /\ fOut = <<Ord("A"), Ord("A"), NL, SP, Ord("A")>>

(***************************************************************************)
(* Properties of the message channel.                                      *)
(***************************************************************************)
\* the events a producer made that are neither delivered nor given up yet
InFlightInput == SelectSeq(msgCh, IsInputEvent) \o rMsgs

InFlightResize ==
    SelectSeq(msgCh, IsResizeEvent)
    \o (IF pcW = "send" THEN <<wMsg>> ELSE <<>>)

\* C11: every event a producer puts on the channel is delivered to Update
\* at most once, and exactly once as long as the loop has not exited and
\* closed done: what was delivered, followed by what is in the channel or
\* held by the blocked producer, is what the producer made, in its order;
\* the channel never holds more than its capacity, the producer blocks.
C11_NoEventLostOrDuplicated ==
    /\ Len(msgCh) <= ChanCap
    /\ IsPrefix(DeliveredInput, inputLog)
    /\ IsPrefix(DeliveredResize, resizeLog)
    /\ done # "closed"
        => /\ DeliveredInput \o InFlightInput = inputLog
           /\ DeliveredResize \o InFlightResize = resizeLog

C11_Witness ==
    /\ Len(msgCh) = ChanCap
    /\ pcR = "send" /\ pcW = "send"
    /\ pcMain = "recv"
    /\ Len(DeliveredInput) >= 1
    /\ Len(inputLog) > ChanCap

LoopRunning == pcMain = "recv"

\* C12: every occurrence of the resize signal while the loop is running
\* results in one resize event, carrying the dimensions current at
\* conversion time, being built and sent towards the consumer: once k
\* signals have occurred since the loop is running, at least k resize
\* events are built sooner or later, unless the loop exits.
C12_EveryResizeSignalConverted ==
    \A k \in 1..MaxSignals :
        []((LoopRunning /\ nSignals = 0)
            => [](nSignals = k
                    => <>(Len(resizeLog) >= k \/ ~LoopRunning)))

(***************************************************************************)
(* Properties of the application model called on its own.                  *)
(***************************************************************************)
\* the keys of the README's shortcut table, by the session action listed
PrevKeys == {"alt+left", "alt+h", "alt+up", "alt+j"}
NextKeys == {"alt+right", "alt+l", "alt+down", "alt+k"}

UpdateCalledOnKey ==
    /\ pcF = "Update"
    /\ fArgs[2].type = "KeyMsg"

\* C26: each key of the README's shortcut table performs its listed session
\* action in every model state, whatever area holds the focus (alt+left,
\* alt+h, alt+up, alt+j: previous session; alt+right, alt+l, alt+down,
\* alt+k: next session), and none of them is inserted into the input text.
C26_ShortcutsEverywhere ==
    (UpdateCalledOnKey /\ fArgs[2].Type \in PrevKeys \cup NextKeys) =>
        LET mdl == fArgs[1]
            delta == IF fArgs[2].Type \in PrevKeys THEN -1 ELSE 1
        IN /\ fOut[1] = OrAppendError(navigateSession(mdl, delta))
           /\ fOut[1].input.ValueStr = mdl.input.ValueStr

NavigateCalled == pcF = "navigateSession"

\* the last message of the conversation
LastMessage(mdl) == mdl.messages[Len(mdl.messages)]

\* the session the model selected has been captured
Captured(mdl) ==
    /\ mdl.sessionLog = PaneOutput(mdl.currentSession)
    /\ mdl.messages # <<>>
    /\ LastMessage(mdl) =
           [Role |-> mdl.currentSession, Content |-> mdl.sessionLog]

CloseAllSucceeded ==
    /\ pcF = "handleSubmit"
    /\ fArgs[2] = "/closeall"
    /\ fOut[2] = Nil

C28_SessionNames ==
    (pcF = "NewSession" /\ fOut[3] = Nil) =>
        fOut[2].Name =
            "hiho-" \o Itoa(Pid) \o "-" \o Itoa(fArgs[1].made)

\* the quit key is the event the main loop receives next
QuitDelivered ==
    /\ pcMain = "recv"
    /\ msgCh # <<>>
    /\ Head(msgCh) = KeyMsg(DefaultConfig.Quit)

QuitKeyRead ==
    \E i \in 1..Len(inputLog) : inputLog[i] = KeyMsg(DefaultConfig.Quit)

\* C27: from every reachable model state (any focus area, any tab, any
\* input text) the quit key (ctrl+c, byte 3 on stdin) makes Update return the
\* quit action with the model unchanged, and Run then returns with a nil
\* error after teardown.
C27_QuitFromEveryState ==
    /\ [][(QuitDelivered /\ calls' # calls) =>
             /\ Update(m, Head(msgCh)) = <<m, Quit>>
             /\ m' = m
             /\ ret' = [model |-> m, err |-> Nil]
             /\ pcMain' = "teardown"]_vars
    /\ QuitKeyRead ~> (Returned /\ ret.err = Nil /\ TeardownOnce)
    /\ QuitDelivered ~> (Returned /\ ret.err = Nil /\ TeardownOnce)

\* Run returned on the quit key with the sidebar focused, the tmux tab
\* active and a letter in the input line
C27_Witness ==
    /\ Returned
    /\ ret = [model |-> m, err |-> Nil]
    /\ TeardownOnce
    /\ calls[Len(calls)].arg = KeyMsg(DefaultConfig.Quit)
    /\ m.focus = focusSidebar
    /\ m.activeTab = tabTmux
    /\ m.input.ValueStr = "a"

\* handleSubmit returned from a line whose command word is word
Submitted(word) ==
    /\ pcF = "handleSubmit"
    /\ IsCommand(fArgs[2])
    /\ ParseCommand(fArgs[2])[1] = word

\* the manager's calls all worked while the line was handled
ManagerWorked == fArgs[1].manager.fails = {}

\* C31: /switch without an argument moves currentSession to the next hiho
\* session when the Tmux tab is active (the one after the current session in
\* the list of hiho sessions, wrapping at its end; the first when no session
\* is current), and returns a usage error with currentSession unchanged when
\* the Conversation tab is active.  /switch <name> sets currentSession to
\* <name> when the manager knows that session and returns an error when it
\* does not.
C31_Switch ==
    Submitted("switch") =>
        LET mdl == fArgs[1]
            arg == ParseCommand(fArgs[2])[2]
            res == fOut[1]
            err == fOut[2]
            L == HihoOnly(mdl.manager.sessions)
            n == Len(L)
            i == IndexOf(L, mdl.currentSession, 1) - 1
        IN /\ (arg = "" /\ mdl.activeTab = tabTmux /\ ManagerWorked /\ n > 0)
                => /\ err = Nil
                   /\ res.currentSession \in Names(L)
                   /\ mdl.currentSession = "" => res.currentSession = L[1]
                   /\ i >= 0 => res.currentSession = L[((i + 1) % n) + 1]
           /\ (arg = "" /\ mdl.activeTab = tabConversation)
                => /\ err = Err("usage: /switch <session>")
                   /\ res.currentSession = mdl.currentSession
           /\ (arg # "" /\ Has(mdl.manager, arg) /\ ManagerWorked)
                => res.currentSession = arg /\ err = Nil
           /\ (arg # "" /\ ~Has(mdl.manager, arg))
                => err # Nil /\ res.currentSession = mdl.currentSession

\* in the Tmux tab /switch moved on from the session /new had created, the
\* last of three hiho sessions, to the first of them
C31_Witness ==
    /\ Submitted("switch")
    /\ fArgs[2] = "/switch"
    /\ fArgs[1].activeTab = tabTmux
    /\ Len(HihoOnly(fArgs[1].manager.sessions)) = 3
    /\ fArgs[1].currentSession = HihoOnly(fArgs[1].manager.sessions)[3]
    /\ fOut[1].currentSession = HihoOnly(fArgs[1].manager.sessions)[1]
    /\ fOut[2] = Nil

\* C32: after "/new <cmd>" succeeds the manager has received exactly one
\* NewSession call, with exactly <cmd> as its argument, currentSession is
\* the name of the session that call created, the active tab is the Tmux
\* tab and the last message is the captured output of that session; "/new"
\* without an argument returns a usage error and does not call the manager.
C32_NewCommand ==
    Submitted("new") =>
        LET mdl == fArgs[1]
            arg == ParseCommand(fArgs[2])[2]
            res == fOut[1]
            err == fOut[2]
            before == mdl.manager.sessions
            after == res.manager.sessions
        IN /\ (arg # "" /\ err = Nil)
                => /\ res.manager.created = Append(mdl.manager.created, arg)
                   /\ Len(after) = Len(before) + 1
                   /\ SubSeq(after, 1, Len(before)) = before
                   /\ after[Len(after)] \notin Names(before)
                   /\ res.currentSession = after[Len(after)]
                   /\ res.activeTab = tabTmux
                   /\ res.messages # <<>>
                   /\ LastMessage(res) =
                          [Role |-> res.currentSession,
                           Content |-> PaneOutput(res.currentSession)]
           /\ arg = ""
                => /\ err = Err("usage: /new <command>")
                   /\ res.manager = mdl.manager
                   /\ res = mdl

\* "/new echo hi " in the Conversation tab created a session beside the
\* three there were
C32_Witness ==
    /\ Submitted("new")
    /\ fArgs[2] = "/new echo hi "
    /\ fArgs[1].activeTab = tabConversation
    /\ Len(fArgs[1].manager.sessions) = 3
    /\ fOut[2] = Nil
    /\ fOut[1].manager.created = <<"echo hi">>
    /\ fOut[1].currentSession = fOut[1].manager.sessions[4]
    /\ fOut[1].activeTab = tabTmux

\* C38: a slash command that returns an error leaves currentSession,
\* sessionLog and activeTab as they were, for every command and every
\* failure of the manager, a failing Capture after the session was created
\* or selected included.
C38_ErrorChangesNothing ==
    (pcF = "handleSubmit" /\ IsCommand(fArgs[2]) /\ fOut[2] # Nil) =>
        /\ fOut[1].currentSession = fArgs[1].currentSession
        /\ fOut[1].sessionLog = fArgs[1].sessionLog
        /\ fOut[1].activeTab = fArgs[1].activeTab

\* C37: after any sequence of key, mouse and resize events and slash
\* commands, with sessions created and killed in between, the selection
\* index names an entry of the cached session list whenever that list is
\* not empty: 0 <= sessionIndex < len(sessions).
C37_SelectionInRange ==
    m.sessions # <<>> =>
        (0 <= m.sessionIndex /\ m.sessionIndex < Len(m.sessions))

\* the keys that are one printable character
PrintableKeys == {Chr(b) : b \in 32..126}

\* C39: while the input line has the focus, a key changes the input text
\* only by appending one printable character or, for backspace, by removing
\* the last character; every other key (up, left, delete, unknown, an
\* unbound alt+ or ctrl+ key) leaves the text as it was.  Enter, which
\* submits the line, is not one of the keys meant.
C39_InputEdits ==
    (UpdateCalledOnKey /\ fArgs[1].focus = focusInput
                       /\ fArgs[2].Type # "enter") =>
        LET key == fArgs[2].Type
            old == fArgs[1].input.ValueStr
            new == fOut[1].input.ValueStr
        IN \/ new = old
           \/ key \in PrintableKeys /\ new = old \o key
           \/ key = "backspace" /\ \E c \in PrintableKeys : old = new \o c

\* how many frames were started, and how many events the loop gave to Update
FramesPrinted == Printed1(ClearHome)

LoopUpdates == Len(LoopArgs(calls))

\* the last thing printed is one frame of the model mdl
FrameOnScreen(mdl) ==
    /\ Len(out) >= 2
    /\ out[Len(out) - 1] = Text(ClearHome)
    /\ out[Len(out)] = View(mdl)

\* C33: every receive from the channel is preceded by one render pass that
\* prints ESC[H ESC[2J and then View() of the model the latest Update
\* returned: while the loop blocks on the channel the frame on the screen is
\* that of the current model, one frame is printed between two Update calls
\* of the loop, and none after the Update call that returned the quit
\* action.
C33_FrameBeforeReceive ==
    /\ [](LoopRunning => FrameOnScreen(m) /\ FramesPrinted = LoopUpdates + 1)
    /\ []((pcMain \in {"teardown", "returned"}) => FramesPrinted = LoopUpdates)
    /\ [][(LoopRunning /\ calls' # calls) =>
             /\ m' = Update(m, Head(msgCh))[1]
             /\ IF pcMain' = "recv"
                THEN out' = out \o <<Text(ClearHome), View(m')>>
                ELSE out' = out /\ Update(m, Head(msgCh))[2] = Quit]_vars

\* the loop blocks on the channel with the third frame on the screen, two
\* events taken since the first
C33_Witness ==
    /\ LoopRunning
    /\ LoopUpdates = 2
    /\ FramesPrinted = 3
    /\ FrameOnScreen(m)
    /\ m.input.ValueStr = "ab"

RECURSIVE LastNonNil(_, _)
\* the last message that is not nil among those the commands cmds[1..i]
\* yield, nil when there is none
LastNonNil(cmds, i) ==
    IF i = 0 THEN Nil
    ELSE IF cmds[i] # Nil /\ cmds[i].yields # Nil THEN cmds[i].yields
    ELSE LastNonNil(cmds, i - 1)

\* the places of the commands that are not nil, in argument order
NonNilPlaces(cmds) ==
    SelectSeq([i \in 1..Len(cmds) |-> i], LAMBDA i : cmds[i] # Nil)

\* C35: the command Batch(cmds...) returns runs every non-nil command once,
\* in argument order, and returns the last non-nil message any of them
\* produced: a nil message of a later command does not replace an earlier
\* non-nil message such as the quit message.
C35_BatchLastNonNil ==
    pcF = "cmd()" =>
        /\ fOut[2] = NonNilPlaces(fArgs)
        /\ fOut[1] = LastNonNil(fArgs, Len(fArgs))

\* every command that is not nil ran once, in argument order
BatchRunsInOrder == pcF = "cmd()" => fOut[2] = NonNilPlaces(fArgs)

\* the call calls[i] is an Update call, or the execution of a command
IsUpdateAt(i) == calls[i].f = "Update"

IsExecAt(i) == calls[i].f = "cmd()"

\* C36: no message of a command that Update returned is ever given to
\* Update.  The commands returned by the Update calls before the main loop
\* (on the initial size, on Init's message) are never executed; a command
\* returned inside the loop is executed and its message dropped, unless it
\* is the quit message, which ends the loop.  The only command whose message
\* reaches Update is the one Init returned; every other Update call is given
\* the initial size or an event a producer sent.
C36_NoCommandMessageToUpdate ==
    \A i \in 1..Len(calls) :
        /\ (IsUpdateAt(i) /\ calls[i].site = "size")
             => /\ calls[i].arg = WindowSizeMsg(termSize[1], termSize[2])
                /\ i < Len(calls) => ~IsExecAt(i + 1)
        /\ (IsUpdateAt(i) /\ calls[i].site = "init")
             => /\ i > 2 /\ IsExecAt(i - 1) /\ calls[i - 2].f = "Init"
                /\ calls[i - 1].arg = calls[i - 2].cmd
                /\ calls[i].arg = calls[i - 1].arg.yields
                /\ i < Len(calls) => ~IsExecAt(i + 1)
        /\ (IsUpdateAt(i) /\ calls[i].site = "loop")
             => \E k \in 1..Len(inputLog) : calls[i].arg = inputLog[k]
        /\ IsExecAt(i)
             => /\ i > 1
                /\ calls[i - 1].f \in {"Init", "Update"}
                /\ calls[i - 1].site = calls[i].site
                /\ calls[i - 1].f = "Update" => calls[i].site = "loop"
                /\ calls[i].arg = calls[i - 1].cmd
                /\ calls[i].arg # Nil
                /\ (calls[i].site = "loop" /\ calls[i].arg.yields = quitMsg)
                     => i = Len(calls) /\ pcMain \in {"teardown", "returned"}
                /\ (calls[i].site = "loop" /\ calls[i].arg.yields # quitMsg
                    /\ i < Len(calls))
                     => calls[i + 1].f = "View"

\* both Update calls before the loop returned a command that yields a
\* message, Init's message was given to Update, and in the loop an Update
\* returned such a command again; the loop went on to the next event
C36_Witness ==
    /\ Len(calls) >= 9
    /\ calls[1].cmd = Cmd(tickMsg)
    /\ calls[2].cmd = Cmd(tickMsg)
    /\ calls[4].f = "Update" /\ calls[4].arg = tickMsg
    /\ calls[4].cmd = Quit
    /\ calls[6].f = "Update" /\ calls[6].cmd = Cmd(tickMsg)
    /\ calls[7] = Exec("loop", Cmd(tickMsg))
    /\ calls[9].f = "Update" /\ calls[9].arg = KeyMsg("a")
    /\ pcMain = "recv"

\* the whole sequence of the up key, which no read of SplitSpec returns
UpSequence == <<ESC, Ord("["), Ord("A")>>

\* C34: each chunk one read of stdin returns is decoded on its own and
\* nothing is kept from one read to the next: the events of a read are
\* parseInput of its chunk, appended to those of the reads before.  An
\* escape sequence split over two reads (ESC at the end of one chunk, [A at
\* the start of the next) is not put together: decoded as one chunk the
\* bytes are the up key, and no up key is ever made from the split reads.
C34_ChunksDecodedAlone ==
    /\ [][nReads' = nReads + 1 =>
             \E chunk \in SplitChunks :
                 /\ rMsgs' = parseInput(chunk)
                 /\ inputLog' = inputLog \o parseInput(chunk)]_vars
    /\ [](/\ parseInput(UpSequence) = <<KeyMsg("up")>>
          /\ \A k \in 1..Len(inputLog) : inputLog[k] # KeyMsg("up")
          /\ \A k \in 1..Len(calls) : calls[k].arg # KeyMsg("up"))

\* ESC ended one read and [A began the next: Update was given the escape
\* key, then "[" and "A"
C34_Witness ==
    /\ inputLog = <<KeyMsg("a"), KeyMsg("esc"), KeyMsg("["), KeyMsg("A")>>
    /\ LoopArgs(calls) = inputLog
    /\ m.input.ValueStr = "aesc[A"

\* C40: every mouse event the decoder emits has X >= 0 and Y >= 0: a report
\* whose Cx or Cy field is 0 or empty (ESC[<0;0;0M, ESC[<;;M) does not
\* produce a mouse event with a negative coordinate.
C40_MouseNonNegative ==
    \A k \in 1..Len(pMsgs) :
        pMsgs[k].type = "MouseMsg"
            => IntNear(pMsgs[k].X) >= 0 /\ IntNear(pMsgs[k].Y) >= 0

====
